---- MODULE Spec2Model ----
(***************************************************************************)
(* Majordomo backend: quests, completion rewards, users' progression,      *)
(* reward claims and the per-user daily bounty, as a state machine over    *)
(* the rows of the relational store.  Every request handler runs in its    *)
(* own database session; a handler that commits more than once is split    *)
(* at its commits, so that other requests interleave where the store lets  *)
(* them.  Times are whole hours since Monday 1 January 2024, 00:00 UTC.     *)
(***************************************************************************)
EXTENDS Integers, FiniteSets, Sequences, TLC

(* ------------------------------ bounds --------------------------------- *)
MaxTicks == 3
MaxQuests == 1         \* quest ids handed out in the quest lifecycle specification
MaxTriggers == 1       \* quest ids handed out in the users specification
MaxBountyQuests == 2   \* quest ids handed out in the bounty specification
MaxBounties == 3       \* daily_bounty ids handed out
MaxXp == 200           \* no request starts that could take a user's xp above this
MaxGold == 20          \* no request starts that could take a user's gold above this
MaxClaims == 2         \* reward claims recorded per user
MaxCorrupted == 6      \* corrupted quests a household starts with in the pipeline specification
MaxGenerated == 3      \* the last quest id at which a generation sweep still starts
MaxTemplates == 1      \* templates created in the template specification
MaxSubscriptions == 3  \* the last subscription id at which a create request still starts
MaxLevelXp == 1100     \* the largest xp calculate_level is applied to in the level specification

(* --------------------------- program constants ------------------------- *)
MIN_BOUNTY_AGE_HOURS == 48
NoTime == -1           \* Optional[datetime] = None
NoId == 0              \* Optional[int] = None

StepHours == MIN_BOUNTY_AGE_HOURS \div 2
MaxTime == MaxTicks * StepHours

(* ------------------------------ seed data ------------------------------ *)
\* household 1 with two members; user 3, template 3 and reward 4 are rows of household 2
Users == 1..2
UserIds == 1..3
HomeOf(u) == IF u = 3 THEN 2 ELSE 1
Procs == 1..2
QuestIds == 1..(MaxQuests + MaxTriggers + MaxBountyQuests)
Templates == 1..2
TemplateIds == 1..3
TemplateHome(t) == IF t = 3 THEN 2 ELSE 1
TemplateXp(t) == IF t = 1 THEN 100 ELSE 50
TemplateGold(t) == IF t = 1 THEN 10 ELSE 5
Rewards == 1..3
RewardIds == 1..4
RewardHome(r) == IF r = 4 THEN 2 ELSE 1
RewardName(r) == CASE r = 1 -> "Heroic Elixir" [] r = 2 -> "Purification Shield" [] OTHER -> "Movie Night"
RewardCost(r) == CASE r = 1 -> 10 [] r = 2 -> 5 [] OTHER -> 10
\* template 1 recurs daily at 00:00 and sets no deadline; template 2 is one-off
TemplateRecurrence(t) == IF t = 1 THEN "daily" ELSE "one-off"
TemplateScheduleHour(t) == 0
TemplateDueInHours(t) == 0

(* ------------------------------ schedules ------------------------------ *)
\* a time string: "HH:MM" with its two numbers (kind "hhmm"), any other text, a JSON value
\* that is no string (kind "number"), or no "time" key at all
TimeStr(h, m) == [kind |-> "hhmm", hour |-> h, minute |-> m]
TimeText == [kind |-> "text", hour |-> 0, minute |-> 0]
TimeNumber == [kind |-> "number", hour |-> 0, minute |-> 0]
TimeMissing == [kind |-> "missing", hour |-> 0, minute |-> 0]
\* the "day" of a schedule: a string, an integer, or no "day" key
DayName(s) == [kind |-> "name", name |-> s, n |-> 0]
DayInt(n) == [kind |-> "int", name |-> "", n |-> n]
DayMissing == [kind |-> "missing", name |-> "", n |-> 0]
\* QuestTemplate.schedule as stored: NULL or empty, text that is not JSON, JSON that is not
\* an object, or an object with its "type", "time" and "day"
Schedule(type, time, day) == [json |-> "object", type |-> type, time |-> time, day |-> day]
ScheduleNone == [json |-> "none", type |-> "missing", time |-> TimeMissing, day |-> DayMissing]
ScheduleNotJson == [json |-> "invalid", type |-> "missing", time |-> TimeMissing, day |-> DayMissing]
ScheduleNotObject == [json |-> "array", type |-> "missing", time |-> TimeMissing, day |-> DayMissing]
TemplateSchedule(t) ==
  IF TemplateRecurrence(t) = "one-off" THEN ScheduleNone
  ELSE Schedule(TemplateRecurrence(t), TimeStr(TemplateScheduleHour(t), 0), DayMissing)
\* a template row as the seed leaves it
TemplateRow(t) == [last_generated_at |-> NoTime, recurrence |-> TemplateRecurrence(t),
                   schedule |-> TemplateSchedule(t),
                   xp_reward |-> TemplateXp(t), gold_reward |-> TemplateGold(t),
                   due_in_hours |-> TemplateDueInHours(t)]

VARIABLES now, templates, quests, nextQuestId, users, claims, bounties, nextBountyId,
          subscriptions, req

vars == <<now, templates, quests, nextQuestId, users, claims, bounties, nextBountyId,
         subscriptions, req>>

(* ------------------------------ helpers -------------------------------- *)
Min(a, b) == IF a < b THEN a ELSE b

\* the household-local calendar date of an instant (households are on UTC)
DateOf(t) == t \div 24

\* the calendar: hour 0 is Monday 1 January 2024, 00:00 UTC
IsLeap(y) == (y % 4 = 0 /\ y % 100 # 0) \/ y % 400 = 0
\* calendar.monthrange(y, m)[1]
monthrange(y, m) ==
  IF m = 2 THEN (IF IsLeap(y) THEN 29 ELSE 28) ELSE IF m \in {4, 6, 9, 11} THEN 30 ELSE 31
DaysInYear(y) == IF IsLeap(y) THEN 366 ELSE 365
RECURSIVE DaysBeforeYear(_)
DaysBeforeYear(y) == IF y <= 2024 THEN 0 ELSE DaysBeforeYear(y - 1) + DaysInYear(y - 1)
RECURSIVE DaysBeforeMonth(_, _)
DaysBeforeMonth(y, m) == IF m <= 1 THEN 0 ELSE DaysBeforeMonth(y, m - 1) + monthrange(y, m - 1)
\* datetime(y, m, d, h, 0, tzinfo=timezone.utc)
DateTime(y, m, d, h) == (DaysBeforeYear(y) + DaysBeforeMonth(y, m) + (d - 1)) * 24 + h
RECURSIVE YearFrom(_, _)
YearFrom(days, y) == IF days < DaysInYear(y) THEN y ELSE YearFrom(days - DaysInYear(y), y + 1)
YearOf(t) == YearFrom(t \div 24, 2024)
RECURSIVE MonthFrom(_, _, _)
MonthFrom(days, y, m) ==
  IF days < monthrange(y, m) THEN m ELSE MonthFrom(days - monthrange(y, m), y, m + 1)
MonthOf(t) == MonthFrom(t \div 24 - DaysBeforeYear(YearOf(t)), YearOf(t), 1)
DayOf(t) == t \div 24 - DaysBeforeYear(YearOf(t)) - DaysBeforeMonth(YearOf(t), MonthOf(t)) + 1
HourOf(t) == t % 24
\* instants are whole hours
MinuteOf(t) == 0
\* datetime.weekday(): 0 is Monday
weekday(t) == (t \div 24) % 7

RECURSIVE LevelLoop(_, _, _)
LevelLoop(xp, level, xp_threshold) ==
  IF xp >= xp_threshold
  THEN LevelLoop(xp, level + 1, xp_threshold + level * 100)
  ELSE level - 1

\* a level every 100 xp instead of a growing step
calculate_level_Linear(xp) == 1 + xp \div 100

calculate_level(xp) == LevelLoop(xp, 1, 0)

IdleReq == [op |-> "idle", pc |-> "idle", quest |-> NoId, user |-> NoId,
            base_xp |-> 0, base_gold |-> 0, xp |-> 0, gold |-> 0, boost |-> FALSE,
            reward |-> NoId, balance |-> 0, boost_count |-> 0, t |-> NoTime, due |-> {},
            status |-> "none", result |-> "none", row |-> NoId, details |-> <<>>]

Finished(r, res) == [IdleReq EXCEPT !.op = r.op, !.result = res]

\* xp and gold that requests in flight will still add to user u
RECURSIVE SumOver(_, _)
SumOver(S, f) == IF S = {} THEN 0
                 ELSE LET x == CHOOSE y \in S : TRUE IN f[x] + SumOver(S \ {x}, f)
PendingXp(u) ==
  SumOver(Procs, [p \in Procs |-> IF req[p].user = u /\ req[p].pc \in {"mark", "xp"}
                                  THEN req[p].xp ELSE 0])
PendingGold(u) ==
  SumOver(Procs, [p \in Procs |-> IF req[p].user = u /\ req[p].pc \in {"mark", "xp", "gold"}
                                  THEN req[p].gold ELSE 0])

NewQuest(h, u, t, due) ==
  [home_id |-> h, user_id |-> u, quest_template_id |-> t, completed |-> FALSE,
   created_at |-> now, completed_at |-> NoTime,
   xp_reward |-> templates[t].xp_reward, gold_reward |-> templates[t].gold_reward,
   quest_type |-> "standard", due_date |-> due, corrupted_at |-> NoTime]

(* ------------------------------- Init ---------------------------------- *)
Init ==
  /\ now = 0
  /\ templates = [t \in Templates |-> TemplateRow(t)]
  /\ quests = <<>>
  /\ nextQuestId = 1
  /\ users = [u \in Users |-> [level |-> 1, xp |-> 0, gold_balance |-> 0,
                               active_xp_boost_count |-> 0, active_shield_expiry |-> NoTime]]
  /\ claims = [u \in Users |-> 0]
  /\ bounties = {}
  /\ subscriptions = {}
  /\ nextBountyId = 1
  /\ req = [p \in Procs |-> IdleReq]

(* ------------------------------ the clock ------------------------------ *)
Tick(limit) ==
  /\ now < limit
  /\ now' = now + StepHours
  /\ UNCHANGED <<subscriptions, templates, quests, nextQuestId, users, claims, bounties,
               nextBountyId, req>>

(* --------------------------- quest requests ---------------------------- *)
\* POST /api/quests
create_quest(auth, u, t, due) ==
  /\ HomeOf(u) = HomeOf(auth)
  /\ TemplateHome(t) = HomeOf(auth)
  /\ quests' = quests @@ (nextQuestId :> NewQuest(HomeOf(auth), u, t, due))
  /\ nextQuestId' = nextQuestId + 1
  /\ UNCHANGED <<subscriptions, now, templates, users, claims, bounties, nextBountyId, req>>

\* POST /api/triggers/quest/{quest_template_id}, up to its first commit
trigger_quest(p, auth, t) ==
  /\ req[p].pc = "idle"
  /\ IF t \notin TemplateIds
     THEN /\ req' = [req EXCEPT ![p] = [IdleReq EXCEPT !.op = "trigger",
                                                       !.result = "QUEST_TEMPLATE_NOT_FOUND"]]
          /\ UNCHANGED <<quests, nextQuestId>>
     ELSE IF TemplateHome(t) # HomeOf(auth)
     THEN /\ req' = [req EXCEPT ![p] = [IdleReq EXCEPT !.op = "trigger", !.result = "FORBIDDEN"]]
          /\ UNCHANGED <<quests, nextQuestId>>
     ELSE /\ users[auth].xp + templates[t].xp_reward + PendingXp(auth) <= MaxXp
          /\ users[auth].gold_balance + templates[t].gold_reward + PendingGold(auth) <= MaxGold
          /\ quests' = quests @@ (nextQuestId :> NewQuest(HomeOf(auth), auth, t, NoTime))
          /\ nextQuestId' = nextQuestId + 1
          /\ req' = [req EXCEPT ![p] = [IdleReq EXCEPT !.op = "trigger", !.pc = "mark",
                                         !.quest = nextQuestId, !.user = auth,
                                         !.base_xp = templates[t].xp_reward,
                                         !.base_gold = templates[t].gold_reward,
                                         !.xp = templates[t].xp_reward,
                                         !.gold = templates[t].gold_reward]]
  /\ UNCHANGED <<subscriptions, now, templates, users, claims, bounties, nextBountyId>>

\* a debuff that does not look at the shield
calculate_corruption_debuff_NoShield(h, user) ==
  LET corrupted_count == Cardinality({q \in DOMAIN quests :
                             /\ quests[q].home_id = h
                             /\ quests[q].quest_type = "corrupted"
                             /\ ~quests[q].completed})
  IN 100 - Min(corrupted_count * 5, 50)

\* the multiplier, in percent, that the household's corruption puts on rewards
calculate_corruption_debuff(h, user) ==
  IF user.active_shield_expiry # NoTime /\ user.active_shield_expiry > now
  THEN 100
  ELSE LET corrupted_count == Cardinality({q \in DOMAIN quests :
                                  /\ quests[q].home_id = h
                                  /\ quests[q].quest_type = "corrupted"
                                  /\ ~quests[q].completed})
       IN 100 - Min(corrupted_count * 5, 50)

\* the template of the quest a bounty decision points at
BountyTemplate(b) ==
  IF b.quest_id \in DOMAIN quests THEN quests[b.quest_id].quest_template_id ELSE NoId

\* the values `is_daily_bounty` can take: the household's row of today, whichever the query
\* returns first, names the template of the quest
IsDailyBounty(h, q) ==
  LET rows == {b \in bounties : b.home_id = h /\ b.bounty_date = DateOf(now)}
  IN IF rows = {} THEN {FALSE}
     ELSE {BountyTemplate(b) = quests[q].quest_template_id : b \in rows}

\* the largest power of two 2^k, from c on, with 2^k <= n10 / 10
RECURSIVE Pow2Below(_, _)
Pow2Below(n10, c) == IF 20 * c <= n10 THEN Pow2Below(n10, 2 * c) ELSE c

\* base * multiplier in IEEE doubles: 1.0 - 30 / 100.0 is the double just below 0.7, and the
\* product with it is rounded to the double just below the exact value when that value lies
\* in the upper part of its binade; no other multiplier of the debuff loses anything
RoundsBelow(base, debuff) ==
  debuff = 70 /\ 7 * base >= 10 /\ 2 * base > 5 * Pow2Below(7 * base, 1)

\* int(base * debuff * bounty_multiplier * xp_boost_multiplier): the doublings are exact, and
\* int() truncates a product that fell short of a whole number to the number below
Awarded(base, debuff, bounty_multiplier, boost_multiplier) ==
  LET exact == base * debuff * bounty_multiplier * boost_multiplier
  IN IF exact % 100 = 0 /\ RoundsBelow(base, debuff)
     THEN exact \div 100 - 1
     ELSE exact \div 100

\* the completed check of POST /api/quests/{quest_id}/complete
AlreadyCompleted(quest) == quest.completed

\* POST /api/quests/{quest_id}/complete, up to its first commit: the reads and the reward pipeline
\* base rewards looked up on the template as it is now
base_rewards_FromTemplate(quest) ==
  [xp |-> templates[quest.quest_template_id].xp_reward,
   gold |-> templates[quest.quest_template_id].gold_reward]

\* complete_quest: the base values are the quest's own snapshot fields
base_rewards(quest) == [xp |-> quest.xp_reward, gold |-> quest.gold_reward]

complete_quest(p, auth, q) ==
  /\ req[p].pc = "idle"
  /\ UNCHANGED <<subscriptions, now, templates, quests, nextQuestId, users, claims, bounties, nextBountyId>>
  /\ IF q \notin DOMAIN quests \/ quests[q].home_id # HomeOf(auth)
     THEN req' = [req EXCEPT ![p] = [IdleReq EXCEPT !.op = "complete", !.result = "QUEST_NOT_FOUND"]]
     ELSE IF AlreadyCompleted(quests[q])
     THEN req' = [req EXCEPT ![p] = [IdleReq EXCEPT !.op = "complete",
                                                    !.result = "QUEST_ALREADY_COMPLETED"]]
     ELSE \E is_daily_bounty \in IsDailyBounty(HomeOf(auth), q) :
          LET quest == quests[q]
              user == users[quest.user_id]
              debuff == calculate_corruption_debuff(HomeOf(auth), user)
              has_xp_boost == user.active_xp_boost_count > 0
              bounty_multiplier == IF is_daily_bounty THEN 2 ELSE 1
              xp_boost_multiplier == IF has_xp_boost THEN 2 ELSE 1
              base_xp == base_rewards(quest).xp
              base_gold == base_rewards(quest).gold
              xp_awarded == Awarded(base_xp, debuff, bounty_multiplier, xp_boost_multiplier)
              gold_awarded == Awarded(base_gold, debuff, bounty_multiplier, 1)
          IN /\ user.xp + xp_awarded + PendingXp(quest.user_id) <= MaxXp
             /\ user.gold_balance + gold_awarded + PendingGold(quest.user_id) <= MaxGold
             /\ req' = [req EXCEPT ![p] = [IdleReq EXCEPT !.op = "complete", !.pc = "mark",
                           !.quest = q, !.user = quest.user_id,
                           !.base_xp = base_xp, !.base_gold = base_gold,
                           !.xp = xp_awarded, !.gold = gold_awarded, !.boost = has_xp_boost]]

\* crud.quest.complete_quest: the session still holds the quest as it was first read, so the
\* UPDATE carries completed, completed_at and the rewards that differ from the values read
crud_complete_quest(p) ==
  LET r == req[p] IN
  /\ r.pc = "mark"
  /\ UNCHANGED <<subscriptions, now, templates, nextQuestId, users, claims, bounties, nextBountyId>>
  /\ IF r.quest \notin DOMAIN quests
     THEN /\ UNCHANGED quests
          /\ req' = [req EXCEPT ![p] = IF r.op = "trigger" THEN [r EXCEPT !.pc = "xp"]
                                       ELSE Finished(r, "SERVER_ERROR")]
     ELSE /\ quests' = [quests EXCEPT ![r.quest] =
                 [@ EXCEPT !.completed = TRUE, !.completed_at = now,
                           !.xp_reward = IF r.xp # r.base_xp THEN r.xp ELSE @,
                           !.gold_reward = IF r.gold # r.base_gold THEN r.gold ELSE @]]
          /\ req' = [req EXCEPT ![p].pc = "xp"]

\* crud.user.add_xp: xp and the level recomputed from it, in one commit
add_xp(user, amount) ==
  [user EXCEPT !.xp = user.xp + amount, !.level = calculate_level(user.xp + amount)]

\* crud.user.add_gold
add_gold(user, amount) == [user EXCEPT !.gold_balance = user.gold_balance + amount]

\* the add_xp call of a completion or trigger request
award_xp(p) ==
  LET r == req[p] IN
  /\ r.pc = "xp"
  /\ users' = [users EXCEPT ![r.user] = add_xp(@, r.xp)]
  /\ req' = [req EXCEPT ![p].pc = "gold"]
  /\ UNCHANGED <<subscriptions, now, templates, quests, nextQuestId, claims, bounties, nextBountyId>>

\* the add_gold call of a completion or trigger request; a request without boost ends here
award_gold(p) ==
  LET r == req[p] IN
  /\ r.pc = "gold"
  /\ users' = [users EXCEPT ![r.user] = add_gold(@, r.gold)]
  /\ req' = [req EXCEPT ![p] =
       IF r.boost
       THEN [r EXCEPT !.pc = "boost",
                      !.boost_count = users[r.user].active_xp_boost_count]
       ELSE IF r.quest \in DOMAIN quests THEN Finished(r, "OK")
       ELSE Finished(r, "SERVER_ERROR")]
  /\ UNCHANGED <<subscriptions, now, templates, quests, nextQuestId, claims, bounties, nextBountyId>>

\* user.active_xp_boost_count -= 1 on the user as add_gold refreshed it, and the last commit
decrement_boost(p) ==
  LET r == req[p] IN
  /\ r.pc = "boost"
  /\ users' = [users EXCEPT ![r.user].active_xp_boost_count = r.boost_count - 1]
  /\ req' = [req EXCEPT ![p] = Finished(r, "OK")]
  /\ UNCHANGED <<subscriptions, now, templates, quests, nextQuestId, claims, bounties, nextBountyId>>

\* GET /api/quests/{quest_id}
get_quest(p, auth, q) ==
  /\ req[p].pc = "idle"
  /\ req' = [req EXCEPT ![p] =
       IF q \notin DOMAIN quests \/ quests[q].home_id # HomeOf(auth)
       THEN [IdleReq EXCEPT !.op = "get_quest", !.result = "QUEST_NOT_FOUND"]
       ELSE [IdleReq EXCEPT !.op = "get_quest", !.quest = q, !.result = "OK"]]
  /\ UNCHANGED <<subscriptions, now, templates, quests, nextQuestId, users, claims, bounties, nextBountyId>>

\* GET /api/quests/templates/{template_id}
get_quest_template(p, auth, t) ==
  /\ req[p].pc = "idle"
  /\ req' = [req EXCEPT ![p] =
       IF t \notin TemplateIds \/ TemplateHome(t) # HomeOf(auth)
       THEN [IdleReq EXCEPT !.op = "get_template", !.result = "QUEST_TEMPLATE_NOT_FOUND"]
       ELSE [IdleReq EXCEPT !.op = "get_template", !.row = t, !.result = "OK"]]
  /\ UNCHANGED <<subscriptions, now, templates, quests, nextQuestId, users, claims, bounties, nextBountyId>>

\* GET /api/users/{user_id}: 404 for no such user, 403 for a user of another household
get_user(p, auth, u) ==
  /\ req[p].pc = "idle"
  /\ req' = [req EXCEPT ![p] =
       IF u \notin UserIds THEN [IdleReq EXCEPT !.op = "get_user", !.result = "USER_NOT_FOUND"]
       ELSE IF HomeOf(u) # HomeOf(auth)
       THEN [IdleReq EXCEPT !.op = "get_user", !.result = "FORBIDDEN"]
       ELSE [IdleReq EXCEPT !.op = "get_user", !.user = u, !.result = "OK"]]
  /\ UNCHANGED <<subscriptions, now, templates, quests, nextQuestId, users, claims, bounties, nextBountyId>>

\* PUT /api/quests/{quest_id} and DELETE /api/quests/{quest_id} for a quest the route does not
\* find in the household: 404, nothing written
quest_not_found(p, auth, q, op) ==
  /\ req[p].pc = "idle"
  /\ ~(q \in DOMAIN quests /\ quests[q].home_id = HomeOf(auth))
  /\ req' = [req EXCEPT ![p] = [IdleReq EXCEPT !.op = op, !.result = "QUEST_NOT_FOUND"]]
  /\ UNCHANGED <<subscriptions, now, templates, quests, nextQuestId, users, claims, bounties, nextBountyId>>

\* PUT /api/quests/{quest_id}: every field the payload carries is written
update_quest(auth, q, quest_update) ==
  /\ q \in DOMAIN quests
  /\ quests[q].home_id = HomeOf(auth)
  /\ quests' = [quests EXCEPT ![q] =
        [f \in DOMAIN @ |-> IF f \in DOMAIN quest_update THEN quest_update[f] ELSE @[f]]]
  /\ UNCHANGED <<subscriptions, now, templates, nextQuestId, users, claims, bounties, nextBountyId, req>>

\* DELETE /api/quests/{quest_id}
delete_quest(auth, q) ==
  /\ q \in DOMAIN quests
  /\ quests[q].home_id = HomeOf(auth)
  /\ quests' = [i \in DOMAIN quests \ {q} |-> quests[i]]
  /\ UNCHANGED <<subscriptions, now, templates, nextQuestId, users, claims, bounties, nextBountyId, req>>

\* a selection that does not look at completed
Overdue_AlsoCompleted(quest) ==
  /\ quest.due_date # NoTime
  /\ quest.due_date < now
  /\ quest.quest_type # "corrupted"

\* the quests the corruption sweep selects
Overdue(quest) ==
  /\ ~quest.completed
  /\ quest.due_date # NoTime
  /\ quest.due_date < now
  /\ quest.quest_type # "corrupted"

\* crud.quest.check_and_corrupt_overdue_quests, as POST /api/quests/check-corruption runs it
check_and_corrupt_overdue_quests ==
  /\ quests' = [q \in DOMAIN quests |->
                  IF Overdue(quests[q])
                  THEN [quests[q] EXCEPT !.quest_type = "corrupted", !.corrupted_at = now]
                  ELSE quests[q]]
  /\ UNCHANGED <<subscriptions, now, templates, nextQuestId, users, claims, bounties, nextBountyId, req>>

\* POST /api/quests/check-corruption: the sweep and the answer built from the list it returns
check_corruption(p, auth) ==
  LET corrupted_quests == {q \in DOMAIN quests : Overdue(quests[q])} IN
  /\ req[p].pc = "idle"
  /\ quests' = [q \in DOMAIN quests |->
                  IF q \in corrupted_quests
                  THEN [quests[q] EXCEPT !.quest_type = "corrupted", !.corrupted_at = now]
                  ELSE quests[q]]
  /\ req' = [req EXCEPT ![p] =
       [IdleReq EXCEPT !.op = "check_corruption", !.user = auth, !.result = "OK",
                       !.details = [corrupted_count |-> Cardinality(corrupted_quests),
                                    corrupted_quest_ids |-> corrupted_quests]]]
  /\ UNCHANGED <<subscriptions, now, templates, nextQuestId, users, claims, bounties,
                 nextBountyId>>

(* ------------------------- recurring generation ------------------------ *)
\* the outcome of a call: the instant it returns or the exception it raises
Returns(t) == [raises |-> "none", time |-> t]
Raises(e) == [raises |-> e, time |-> NoTime]

\* services.recurring_quests.parse_time: two integers around one colon, within 00:00..23:59;
\* int(), the unpacking and the split of a value that is no string all end in ValueError
parse_time(time_str) ==
  IF /\ time_str.kind = "hhmm"
     /\ 0 <= time_str.hour /\ time_str.hour <= 23
     /\ 0 <= time_str.minute /\ time_str.minute <= 59
  THEN [raises |-> "none", hour |-> time_str.hour, minute |-> time_str.minute]
  ELSE [raises |-> "ValueError", hour |-> 0, minute |-> 0]

\* schedule.get("time", "00:00")
GetTime(schedule) == IF schedule.time.kind = "missing" THEN TimeStr(0, 0) ELSE schedule.time

\* day_map.get(day_name, 0)
day_map(day_name) ==
  CASE day_name = "monday" -> 0 [] day_name = "tuesday" -> 1 [] day_name = "wednesday" -> 2
    [] day_name = "thursday" -> 3 [] day_name = "friday" -> 4 [] day_name = "saturday" -> 5
    [] day_name = "sunday" -> 6 [] OTHER -> 0

\* a daily calculation that waits for tomorrow once today's time has passed
DailyNext_NoCatchUp(last_generated_at, schedule) ==
  LET tm == parse_time(GetTime(schedule))
      today_scheduled == DateOf(now) * 24 + tm.hour
  IN IF tm.raises # "none" THEN Raises(tm.raises)
     ELSE IF today_scheduled <= now THEN Returns(today_scheduled + 24)
     ELSE Returns(today_scheduled)

\* calculate_next_generation_time, daily
DailyNext(last_generated_at, schedule) ==
  LET tm == parse_time(GetTime(schedule))
      today_scheduled == DateOf(now) * 24 + tm.hour
  IN IF tm.raises # "none" THEN Raises(tm.raises)
     ELSE IF last_generated_at = NoTime THEN Returns(today_scheduled)
     ELSE IF DateOf(last_generated_at) = DateOf(now) THEN Returns(today_scheduled + 24)
     ELSE Returns(today_scheduled)

\* the distance to the target weekday, without the week added once today's time has passed
DaysAhead_SameDay(target_weekday, hour, minute) ==
  LET diff == target_weekday - weekday(now)
  IN IF diff < 0 THEN diff + 7 ELSE diff

\* days_ahead of the weekly calculation
DaysAhead(target_weekday, hour, minute) ==
  LET diff == target_weekday - weekday(now)
  IN IF diff < 0 THEN diff + 7
     ELSE IF diff = 0 /\ (\/ HourOf(now) > hour
                           \/ (HourOf(now) = hour /\ MinuteOf(now) >= minute))
     THEN 7
     ELSE diff

\* a weekly calculation that never looks at the last generation
AlreadyThisWeek_Unchecked(last_generated_at, next_occurrence) == FALSE

\* the weekly calculation's test for a generation within the last 7 days
AlreadyThisWeek(last_generated_at, next_occurrence) ==
  /\ last_generated_at # NoTime
  /\ last_generated_at >= now - 7 * 24
  /\ next_occurrence - last_generated_at < 7 * 24

\* calculate_next_generation_time, weekly; .lower() of a day that is no string raises
\* AttributeError before the time is parsed
WeeklyNext(last_generated_at, schedule) ==
  LET tm == parse_time(GetTime(schedule))
      day_name == IF schedule.day.kind = "missing" THEN "monday" ELSE schedule.day.name
      target_weekday == day_map(day_name)
      days_ahead == DaysAhead(target_weekday, tm.hour, tm.minute)
      next_occurrence == DateOf(now + 24 * days_ahead) * 24 + tm.hour
  IN IF schedule.day.kind = "int" THEN Raises("AttributeError")
     ELSE IF tm.raises # "none" THEN Raises(tm.raises)
     ELSE IF AlreadyThisWeek(last_generated_at, next_occurrence)
     THEN Returns(next_occurrence + 7 * 24)
     ELSE Returns(next_occurrence)

\* target_date.replace(day=day_of_month) with its fallback to the last day of the month
ClampDay(y, m, day_of_month) ==
  IF day_of_month \in 1..monthrange(y, m) THEN day_of_month ELSE monthrange(y, m)

\* calculate_next_generation_time, monthly; replace(day=...) of a day that is no integer
\* raises TypeError, and the move of an occurrence that has passed to the next month is a
\* replace(month=...) that keeps the day and raises ValueError when that month lacks it
MonthlyNext(last_generated_at, schedule) ==
  LET tm == parse_time(GetTime(schedule))
      day_of_month == IF schedule.day.kind = "missing" THEN 1 ELSE schedule.day.n
      y == YearOf(now)
      m == MonthOf(now)
      ny == IF m = 12 THEN y + 1 ELSE y
      nm == IF m = 12 THEN 1 ELSE m + 1
      this_day == ClampDay(y, m, day_of_month)
      target_date == DateTime(y, m, this_day, tm.hour)
  IN IF tm.raises # "none" THEN Raises(tm.raises)
     ELSE IF schedule.day.kind = "name" THEN Raises("TypeError")
     ELSE IF /\ last_generated_at # NoTime
             /\ MonthOf(last_generated_at) = m /\ YearOf(last_generated_at) = y
     THEN Returns(DateTime(ny, nm, ClampDay(ny, nm, day_of_month), tm.hour))
     ELSE IF target_date <= now
     THEN IF this_day \notin 1..monthrange(ny, nm) THEN Raises("ValueError")
          ELSE Returns(DateTime(ny, nm, ClampDay(ny, nm, day_of_month), tm.hour))
     ELSE Returns(target_date)

\* services.recurring_quests.calculate_next_generation_time on a parsed schedule
calculate_next_generation_time(last_generated_at, schedule) ==
  CASE schedule.type = "daily" -> DailyNext(last_generated_at, schedule)
    [] schedule.type = "weekly" -> WeeklyNext(last_generated_at, schedule)
    [] schedule.type = "monthly" -> MonthlyNext(last_generated_at, schedule)
    [] OTHER -> Raises("ValueError")

\* a sweep that does not look for an outstanding instance
ExistingIncomplete_Unchecked(t) == FALSE

\* generate_due_quests: an incomplete instance of the template exists
ExistingIncomplete(t) ==
  \E q \in DOMAIN quests : quests[q].quest_template_id = t /\ ~quests[q].completed

\* the call the sweep's loop makes for template t, on its row as stored: json.loads and
\* calculate_next_generation_time, with the outcome kept by the caller
calculate(p, t) ==
  LET schedule == templates[t].schedule
      r == calculate_next_generation_time(templates[t].last_generated_at, schedule)
  IN /\ req[p].pc = "idle"
     /\ req[p].op = "idle"
     /\ schedule.json = "object"
     /\ req' = [req EXCEPT ![p] = [IdleReq EXCEPT !.op = "calculate", !.row = t,
                                     !.t = r.time,
                                     !.result = IF r.raises = "none" THEN "OK" ELSE r.raises]]
     /\ UNCHANGED <<subscriptions, now, templates, quests, nextQuestId, users, claims, bounties, nextBountyId>>

\* generate_due_quests: the templates its query selects
Candidates(h) ==
  {t \in DOMAIN templates :
     /\ TemplateHome(t) = h
     /\ templates[t].recurrence # "one-off"
     /\ \/ templates[t].last_generated_at = NoTime
        \/ templates[t].last_generated_at < now - 1}

\* generate_due_quests: one turn of its loop. A template without schedule is passed over;
\* JSONDecodeError, ValueError and KeyError are caught and the template skipped; any other
\* exception (json.loads gave no dict, so .get fails; a day of the wrong type) leaves the
\* loop and the function
Processed(t) ==
  LET schedule == templates[t].schedule
      next_generation_time ==
        calculate_next_generation_time(templates[t].last_generated_at, schedule)
  IN IF schedule.json = "none" THEN "skip"
     ELSE IF schedule.json = "invalid" THEN "skip"
     ELSE IF schedule.json # "object" THEN "AttributeError"
     ELSE IF next_generation_time.raises = "ValueError" THEN "skip"
     ELSE IF next_generation_time.raises # "none" THEN next_generation_time.raises
     ELSE IF now >= next_generation_time.time /\ ~ExistingIncomplete(t) THEN "generate"
     ELSE "skip"

\* generate_due_quests: the templates the sweep decides to generate an instance of
DueTemplates(h) == {t \in Candidates(h) : Processed(t) = "generate"}

\* generate_due_quests ends in an exception it does not catch
SweepRaises(h) == \E t \in Candidates(h) : Processed(t) \notin {"skip", "generate"}

\* the rows check_and_corrupt_overdue_quests leaves behind
Corrupted(qs, t) ==
  [q \in DOMAIN qs |->
     IF /\ ~qs[q].completed /\ qs[q].due_date # NoTime /\ qs[q].due_date < t
        /\ qs[q].quest_type # "corrupted"
     THEN [qs[q] EXCEPT !.quest_type = "corrupted", !.corrupted_at = t]
     ELSE qs[q]]

\* a sweep that sets no deadline
due_date_Unset(template, t) == NoTime

\* generate_due_quests: the deadline of a new instance, none when the template has no
\* due_in_hours
due_date(template, t) ==
  IF template.due_in_hours # 0 THEN t + template.due_in_hours ELSE NoTime

\* the instances one sweep adds: one per member of the household for each due template, with
\* ids from next on
RECURSIVE Generated(_, _, _, _)
Generated(h, due, next, t) ==
  IF due = {} THEN <<>>
  ELSE LET tpl == CHOOSE x \in due : \A y \in due : x <= y
           members == {u \in Users : HomeOf(u) = h}
           n == Cardinality(members)
           Member(i) == CHOOSE u \in members : Cardinality({v \in members : v < u}) = i - 1
       IN [q \in next..(next + n - 1) |->
             [home_id |-> h, user_id |-> Member(q - next + 1), quest_template_id |-> tpl,
              completed |-> FALSE, created_at |-> t, completed_at |-> NoTime,
              xp_reward |-> templates[tpl].xp_reward,
              gold_reward |-> templates[tpl].gold_reward,
              quest_type |-> "standard",
              due_date |-> due_date(templates[tpl], t),
              corrupted_at |-> NoTime]]
            @@ Generated(h, due \ {tpl}, next + n, t)

\* GET /api/quests up to the commit of generate_due_quests: the sweep reads the templates and
\* the outstanding instances; with nothing due it commits nothing and the corruption sweep
\* and the listing follow at once; an exception of the sweep ends the request before either
get_all_quests(p, auth) ==
  LET h == HomeOf(auth)
      due == DueTemplates(h)
  IN /\ req[p].pc = "idle"
     /\ IF SweepRaises(h)
        THEN /\ UNCHANGED quests
             /\ req' = [req EXCEPT ![p] = [IdleReq EXCEPT !.op = "list",
                                                          !.result = "SERVER_ERROR"]]
        ELSE IF due = {}
        THEN /\ quests' = Corrupted(quests, now)
             /\ req' = [req EXCEPT ![p] = [IdleReq EXCEPT !.op = "list", !.result = "OK"]]
        ELSE /\ UNCHANGED quests
             /\ req' = [req EXCEPT ![p] = [IdleReq EXCEPT !.op = "list", !.pc = "generate",
                                            !.user = auth, !.t = now, !.due = due]]
     /\ UNCHANGED <<subscriptions, now, templates, nextQuestId, users, claims, bounties, nextBountyId>>

\* session.commit() of generate_due_quests: the new instances and last_generated_at of their
\* templates; the corruption sweep and the listing end the request
generate_commit(p) ==
  LET r == req[p]
      new == Generated(HomeOf(r.user), r.due, nextQuestId, r.t)
  IN /\ r.pc = "generate"
     /\ quests' = Corrupted(quests @@ new, now)
     /\ nextQuestId' = nextQuestId + Cardinality(DOMAIN new)
     /\ templates' = [t \in DOMAIN templates |->
                        IF t \in r.due THEN [templates[t] EXCEPT !.last_generated_at = r.t]
                        ELSE templates[t]]
     /\ req' = [req EXCEPT ![p] = Finished(r, "OK")]
     /\ UNCHANGED <<subscriptions, now, users, claims, bounties, nextBountyId>>

(* -------------------------- template requests ------------------------- *)
\* routes.quest._validate_quest_schedule: "ok", or the 400 it raises, or the AttributeError
\* that leaves it when the JSON is no object or a weekly day is no string
validate_quest_schedule(recurrence, schedule) ==
  IF recurrence = "one-off" THEN "ok"
  ELSE IF schedule.json = "none" THEN "400"
  ELSE IF schedule.json = "invalid" THEN "400"
  ELSE IF schedule.json # "object" THEN "AttributeError"
  ELSE IF schedule.type # recurrence THEN "400"
  ELSE IF /\ schedule.time.kind # "missing"
          /\ ~(/\ schedule.time.kind = "hhmm"
                /\ schedule.time.hour \in 0..23
                /\ schedule.time.minute \in 0..59) THEN "400"
  ELSE IF schedule.type = "weekly" /\ schedule.day.kind = "int" THEN "AttributeError"
  ELSE IF /\ schedule.type = "weekly"
          /\ ~(/\ schedule.day.kind = "name"
                /\ schedule.day.name \in {"monday", "tuesday", "wednesday", "thursday",
                                           "friday", "saturday", "sunday"}) THEN "400"
  ELSE IF /\ schedule.type = "monthly"
          /\ ~(schedule.day.kind = "int" /\ schedule.day.n \in 1..31) THEN "400"
  ELSE "ok"

\* the answer of a template request after validation
Validated(outcome) ==
  CASE outcome = "ok" -> "OK" [] outcome = "400" -> "BAD_REQUEST" [] OTHER -> "SERVER_ERROR"

\* the id the store gives the next template row
NextTemplateId ==
  1 + CHOOSE m \in DOMAIN templates \cup TemplateIds :
        \A t \in DOMAIN templates \cup TemplateIds : t <= m

\* POST /api/quests/templates: the payload is validated and stored as it came
create_quest_template(p, auth, created_by, template) ==
  LET outcome == validate_quest_schedule(template.recurrence, template.schedule)
      id == NextTemplateId
  IN /\ req[p].pc = "idle"
     /\ IF created_by \notin UserIds \/ HomeOf(created_by) # HomeOf(auth)
        THEN /\ UNCHANGED templates
             /\ req' = [req EXCEPT ![p] = [IdleReq EXCEPT !.op = "create_template",
                                                          !.result = "USER_NOT_FOUND"]]
        ELSE IF outcome # "ok"
        THEN /\ UNCHANGED templates
             /\ req' = [req EXCEPT ![p] = [IdleReq EXCEPT !.op = "create_template",
                                                          !.result = Validated(outcome)]]
        ELSE /\ templates' = templates @@
                  (id :> [last_generated_at |-> NoTime,
                          recurrence |-> template.recurrence, schedule |-> template.schedule,
                          xp_reward |-> template.xp_reward,
                          gold_reward |-> template.gold_reward,
                          due_in_hours |-> template.due_in_hours])
             /\ req' = [req EXCEPT ![p] = [IdleReq EXCEPT !.op = "create_template",
                                                          !.row = id, !.result = "OK"]]
     /\ UNCHANGED <<subscriptions, now, quests, nextQuestId, users, claims, bounties, nextBountyId>>

\* crud.quest_template.update_quest_template: every field the payload carries is written
apply_template_update(row, template_update) ==
  [f \in DOMAIN row |-> IF f \in DOMAIN template_update THEN template_update[f] ELSE row[f]]

\* PUT /api/quests/templates/{template_id}: the recurrence and the schedule validated are
\* those of the payload where it carries one that is not null, else those stored
update_quest_template(p, auth, t, template_update) ==
  /\ req[p].pc = "idle"
  /\ IF ~(t \in DOMAIN templates /\ TemplateHome(t) = HomeOf(auth))
     THEN /\ UNCHANGED templates
          /\ req' = [req EXCEPT ![p] = [IdleReq EXCEPT !.op = "update_template",
                                                       !.result = "QUEST_TEMPLATE_NOT_FOUND"]]
     ELSE LET template == templates[t]
              new_recurrence == IF "recurrence" \in DOMAIN template_update
                                THEN template_update.recurrence ELSE template.recurrence
              new_schedule == IF /\ "schedule" \in DOMAIN template_update
                                 /\ template_update.schedule.json # "none"
                              THEN template_update.schedule ELSE template.schedule
              outcome == validate_quest_schedule(new_recurrence, new_schedule)
          IN IF outcome # "ok"
             THEN /\ UNCHANGED templates
                  /\ req' = [req EXCEPT ![p] = [IdleReq EXCEPT !.op = "update_template",
                                                               !.result = Validated(outcome)]]
             ELSE /\ templates' = [templates EXCEPT
                                     ![t] = apply_template_update(@, template_update)]
                  /\ req' = [req EXCEPT ![p] = [IdleReq EXCEPT !.op = "update_template",
                                                               !.row = t, !.result = "OK"]]
  /\ UNCHANGED <<subscriptions, now, quests, nextQuestId, users, claims, bounties, nextBountyId>>

(* ------------------------ subscription requests ----------------------- *)
\* crud.subscription.get_subscription_by_user_template
get_subscription_by_user_template(user_id, template_id) ==
  {s \in subscriptions : s.user_id = user_id /\ s.quest_template_id = template_id}

\* POST /api/subscriptions up to the INSERT: the template check and the look for a
\* subscription of the caller to the template
create_subscription(p, auth, t) ==
  /\ req[p].pc = "idle"
  /\ req' = [req EXCEPT ![p] =
       IF ~(t \in DOMAIN templates /\ TemplateHome(t) = HomeOf(auth))
       THEN [IdleReq EXCEPT !.op = "subscribe", !.result = "QUEST_TEMPLATE_NOT_FOUND"]
       ELSE IF get_subscription_by_user_template(auth, t) # {}
       THEN [IdleReq EXCEPT !.op = "subscribe", !.result = "ALREADY_SUBSCRIBED"]
       ELSE [IdleReq EXCEPT !.op = "subscribe", !.pc = "insert_subscription",
                            !.user = auth, !.row = t]]
  /\ UNCHANGED <<subscriptions, now, templates, quests, nextQuestId, users, claims, bounties,
                 nextBountyId>>

\* the id the store gives the next subscription row
NextSubscriptionId ==
  IF subscriptions = {} THEN 1
  ELSE 1 + CHOOSE m \in {s.id : s \in subscriptions} : \A s \in subscriptions : s.id <= m

\* crud.subscription.create_subscription: the INSERT and its commit. The declaration of the
\* table is not part of the sources at hand, so both stores are modelled: one that takes a
\* second row for the pair, and one with a unique index on (user_id, quest_template_id),
\* whose IntegrityError nobody catches
crud_create_subscription(p) ==
  LET r == req[p]
      row == [id |-> NextSubscriptionId, user_id |-> r.user, quest_template_id |-> r.row]
  IN /\ r.pc = "insert_subscription"
     /\ \/ /\ subscriptions' = subscriptions \cup {row}
           /\ req' = [req EXCEPT ![p] = Finished(r, "OK")]
        \/ /\ get_subscription_by_user_template(r.user, r.row) # {}
           /\ UNCHANGED subscriptions
           /\ req' = [req EXCEPT ![p] = Finished(r, "SERVER_ERROR")]
     /\ UNCHANGED <<now, templates, quests, nextQuestId, users, claims, bounties, nextBountyId>>

\* DELETE /api/subscriptions/{subscription_id} by the subscription's user
delete_subscription(auth, id) ==
  /\ \E s \in subscriptions : s.id = id /\ s.user_id = auth
  /\ subscriptions' = {s \in subscriptions : s.id # id}
  /\ UNCHANGED <<now, templates, quests, nextQuestId, users, claims, bounties, nextBountyId,
                 req>>

(* ---------------------------- user requests ---------------------------- *)
\* POST /api/users/{user_id}/xp
add_xp_to_user(auth, u, amount) ==
  /\ HomeOf(u) = HomeOf(auth)
  /\ amount >= 0
  /\ users[u].xp + amount + PendingXp(u) <= MaxXp
  /\ users' = [users EXCEPT ![u] = add_xp(@, amount)]
  /\ UNCHANGED <<subscriptions, now, templates, quests, nextQuestId, claims, bounties, nextBountyId, req>>

\* POST /api/users/{user_id}/gold
add_gold_to_user(auth, u, amount) ==
  /\ HomeOf(u) = HomeOf(auth)
  /\ amount >= 0
  /\ users[u].gold_balance + amount + PendingGold(u) <= MaxGold
  /\ users' = [users EXCEPT ![u] = add_gold(@, amount)]
  /\ UNCHANGED <<subscriptions, now, templates, quests, nextQuestId, claims, bounties, nextBountyId, req>>

\* the constraints of the UserUpdate schema
ValidUserUpdate(user_update) ==
  /\ "level" \in DOMAIN user_update => user_update["level"] >= 1
  /\ "xp" \in DOMAIN user_update => user_update["xp"] >= 0
  /\ "gold_balance" \in DOMAIN user_update => user_update["gold_balance"] >= 0

\* crud.user.update_user: every field the payload carries is written, nothing is recomputed
apply_user_update(user, user_update) ==
  [f \in DOMAIN user |-> IF f \in DOMAIN user_update THEN user_update[f] ELSE user[f]]

\* PUT /api/users/{user_id}
update_user(auth, u, user_update) ==
  /\ HomeOf(u) = HomeOf(auth)
  /\ ValidUserUpdate(user_update)
  /\ users' = [users EXCEPT ![u] = apply_user_update(@, user_update)]
  /\ UNCHANGED <<subscriptions, now, templates, quests, nextQuestId, claims, bounties, nextBountyId, req>>

(* --------------------------- reward claims ----------------------------- *)
\* a claim_reward without its gold check
InsufficientGold_Unchecked(user, cost) == FALSE

\* the gold check of crud.reward.claim_reward
InsufficientGold(user, cost) == user.gold_balance < cost

\* POST /api/rewards/{reward_id}/claim up to its first commit: the checks of the route and of
\* crud.reward.claim_reward on the user row as the session reads it
claim_reward(p, auth, u, rw) ==
  LET user == users[u] IN
  /\ req[p].pc = "idle"
  /\ u \in Users => claims[u] < MaxClaims
  /\ UNCHANGED <<subscriptions, now, templates, quests, nextQuestId, users, claims, bounties, nextBountyId>>
  /\ req' = [req EXCEPT ![p] =
       IF u \notin UserIds \/ HomeOf(u) # HomeOf(auth)
       THEN [IdleReq EXCEPT !.op = "claim", !.result = "USER_NOT_FOUND"]
       ELSE IF rw \notin RewardIds \/ RewardHome(rw) # HomeOf(auth)
       THEN [IdleReq EXCEPT !.op = "claim", !.result = "REWARD_NOT_FOUND"]
       ELSE IF InsufficientGold(user, RewardCost(rw))
       THEN [IdleReq EXCEPT !.op = "claim", !.result = "INSUFFICIENT_GOLD",
                            !.details = [required |-> RewardCost(rw),
                                         current |-> user.gold_balance]]
       ELSE IF RewardName(rw) = "Heroic Elixir" /\ user.active_xp_boost_count > 0
       THEN [IdleReq EXCEPT !.op = "claim", !.result = "CONSUMABLE_ALREADY_ACTIVE"]
       ELSE IF /\ RewardName(rw) = "Purification Shield"
               /\ user.active_shield_expiry # NoTime
               /\ user.active_shield_expiry > now
       THEN [IdleReq EXCEPT !.op = "claim", !.result = "CONSUMABLE_ALREADY_ACTIVE"]
       ELSE [IdleReq EXCEPT !.op = "claim", !.pc = "pay", !.user = u, !.reward = rw,
                            !.balance = user.gold_balance, !.t = now]]

\* add_gold(db, user_id, -reward.cost) inside claim_reward: the session still holds the user
\* as the claim first read it, so the balance written is that balance minus the cost
claim_pay(p) ==
  LET r == req[p] IN
  /\ r.pc = "pay"
  /\ users' = [users EXCEPT ![r.user].gold_balance =
                 IF RewardCost(r.reward) # 0 THEN r.balance - RewardCost(r.reward) ELSE @]
  /\ req' = [req EXCEPT ![p].pc = "activate"]
  /\ UNCHANGED <<subscriptions, now, templates, quests, nextQuestId, claims, bounties, nextBountyId>>

\* the consumable's effect and the claim row, in the second commit of claim_reward
claim_activate(p) ==
  LET r == req[p] IN
  /\ r.pc = "activate"
  /\ users' = [users EXCEPT ![r.user] =
        IF RewardName(r.reward) = "Heroic Elixir" THEN [@ EXCEPT !.active_xp_boost_count = 3]
        ELSE IF RewardName(r.reward) = "Purification Shield"
        THEN [@ EXCEPT !.active_shield_expiry = r.t + 24]
        ELSE @]
  /\ claims' = [claims EXCEPT ![r.user] = @ + 1]
  /\ req' = [req EXCEPT ![p] = Finished(r, "OK")]
  /\ UNCHANGED <<subscriptions, now, templates, quests, nextQuestId, bounties, nextBountyId>>

(* ---------------------------- daily bounty ----------------------------- *)
\* a lookup that forgets the date
get_bounty_for_date_AnyDate(h, u, target_date) ==
  {b \in bounties : b.home_id = h /\ b.user_id = u}

\* crud.daily_bounty.get_bounty_for_date
get_bounty_for_date(h, u, target_date) ==
  {b \in bounties : b.home_id = h /\ b.user_id = u /\ b.bounty_date = target_date}

\* a candidate query that forgets whose quests they are
get_eligible_active_quests_AnyUser(h, u) ==
  LET age_cutoff == now - MIN_BOUNTY_AGE_HOURS
  IN {q \in DOMAIN quests : /\ quests[q].home_id = h
                            /\ ~quests[q].completed
                            /\ quests[q].created_at <= age_cutoff}

\* crud.daily_bounty._get_eligible_active_quests
get_eligible_active_quests(h, u) ==
  LET age_cutoff == now - MIN_BOUNTY_AGE_HOURS
  IN {q \in DOMAIN quests : /\ quests[q].home_id = h
                            /\ quests[q].user_id = u
                            /\ ~quests[q].completed
                            /\ quests[q].created_at <= age_cutoff}

\* the quest of yesterday's decision when that decision was 'assigned', else none
YesterdayAssigned(h, u, today) ==
  LET rows == get_bounty_for_date(h, u, today - 1)
  IN IF \E b \in rows : b.status = "assigned"
     THEN (CHOOSE b \in rows : b.status = "assigned").quest_id
     ELSE NoId

\* a draw that keeps yesterday's quest among the candidates
AntiRepeat_Off(candidates, yesterday_quest) == candidates

\* the candidates left after the anti-repeat rule
AntiRepeat(candidates, yesterday_quest) ==
  IF Cardinality(candidates) > 1 /\ yesterday_quest # NoId /\ yesterday_quest \in candidates
  THEN candidates \ {yesterday_quest}
  ELSE candidates

\* get_or_create_today_bounty up to the INSERT: the reads, the anti-repeat rule and the draw
Resolve(p, u, op) ==
  LET h == HomeOf(u)
      today == DateOf(now)
      existing == get_bounty_for_date(h, u, today)
      candidates == get_eligible_active_quests(h, u)
      yesterday_quest == YesterdayAssigned(h, u, today)
  IN IF existing # {}
     THEN \E b \in existing :
            req' = [req EXCEPT ![p] = [IdleReq EXCEPT !.op = op, !.user = u, !.t = today,
                       !.row = b.id, !.status = b.status, !.quest = b.quest_id, !.result = "OK"]]
     ELSE IF candidates = {}
     THEN req' = [req EXCEPT ![p] = [IdleReq EXCEPT !.op = op, !.pc = "insert", !.user = u,
                       !.t = today, !.status = "none_eligible"]]
     ELSE \E chosen \in AntiRepeat(candidates, yesterday_quest) :
            req' = [req EXCEPT ![p] = [IdleReq EXCEPT !.op = op, !.pc = "insert", !.user = u,
                       !.t = today, !.status = "assigned", !.quest = chosen]]

\* a call of get_or_create_today_bounty(db, home_id, user_id)
get_or_create_today_bounty(p, u) ==
  /\ req[p].pc = "idle"
  /\ Resolve(p, u, "bounty")
  /\ UNCHANGED <<subscriptions, now, templates, quests, nextQuestId, users, claims, bounties, nextBountyId>>

\* a daily_bounty table without its unique constraint
UniqueViolation_Unenforced(h, u, target_date) == FALSE

\* the unique constraint unique_home_user_bounty_date of the daily_bounty table
UniqueViolation(h, u, target_date) == get_bounty_for_date(h, u, target_date) # {}

\* a _create_decision that leaves the status at the column's default
create_decision_DefaultStatus(p) ==
  LET r == req[p] IN
  /\ r.pc = "insert"
  /\ bounties' = bounties \cup {[id |-> nextBountyId, home_id |-> HomeOf(r.user),
                                 user_id |-> r.user, quest_id |-> r.quest,
                                 bounty_date |-> r.t, status |-> "none_eligible"]}
  /\ nextBountyId' = nextBountyId + 1
  /\ req' = [req EXCEPT ![p] = [r EXCEPT !.pc = "idle", !.row = nextBountyId,
                                         !.result = "CREATED"]]
  /\ UNCHANGED <<subscriptions, now, templates, quests, nextQuestId, users, claims>>

\* _create_decision: the INSERT commits, or the unique constraint refuses it and the session
\* rolls back
create_decision(p) ==
  LET r == req[p] IN
  /\ r.pc = "insert"
  /\ IF UniqueViolation(HomeOf(r.user), r.user, r.t)
     THEN /\ req' = [req EXCEPT ![p].pc = "refetch"]
          /\ UNCHANGED <<bounties, nextBountyId>>
     ELSE /\ bounties' = bounties \cup {[id |-> nextBountyId, home_id |-> HomeOf(r.user),
                                         user_id |-> r.user, quest_id |-> r.quest,
                                         bounty_date |-> r.t, status |-> r.status]}
          /\ nextBountyId' = nextBountyId + 1
          /\ req' = [req EXCEPT ![p] = [r EXCEPT !.pc = "idle", !.row = nextBountyId,
                                                 !.result = "CREATED"]]
  /\ UNCHANGED <<subscriptions, now, templates, quests, nextQuestId, users, claims>>

\* a handler that lets the IntegrityError through
refetch_after_conflict_Raise(p) ==
  LET r == req[p]
  IN /\ r.pc = "refetch"
     /\ req' = [req EXCEPT ![p] = [IdleReq EXCEPT !.op = r.op, !.user = r.user, !.t = r.t,
                                                  !.result = "SERVER_ERROR"]]
     /\ UNCHANGED <<subscriptions, now, templates, quests, nextQuestId, users, claims, bounties, nextBountyId>>

\* after the conflict: the row the concurrent request inserted is returned; the error is
\* raised again when that row is gone
refetch_after_conflict(p) ==
  LET r == req[p]
      existing_after_conflict == get_bounty_for_date(HomeOf(r.user), r.user, r.t)
  IN /\ r.pc = "refetch"
     /\ IF existing_after_conflict # {}
        THEN \E b \in existing_after_conflict :
               req' = [req EXCEPT ![p] = [IdleReq EXCEPT !.op = r.op, !.user = r.user, !.t = r.t,
                          !.row = b.id, !.status = b.status, !.quest = b.quest_id,
                          !.result = "EXISTING_AFTER_CONFLICT"]]
        ELSE req' = [req EXCEPT ![p] = [IdleReq EXCEPT !.op = r.op, !.user = r.user, !.t = r.t,
                          !.result = "SERVER_ERROR"]]
     /\ UNCHANGED <<subscriptions, now, templates, quests, nextQuestId, users, claims, bounties, nextBountyId>>

\* refresh_bounty up to its commit: today's row, when there is one, is deleted
refresh_bounty(p, u) ==
  /\ req[p].pc = "idle"
  /\ bounties' = bounties \ get_bounty_for_date(HomeOf(u), u, DateOf(now))
  /\ req' = [req EXCEPT ![p] = [IdleReq EXCEPT !.op = "refresh", !.pc = "resolve", !.user = u]]
  /\ UNCHANGED <<subscriptions, now, templates, quests, nextQuestId, users, claims, nextBountyId>>

\* the get_or_create_today_bounty call that ends refresh_bounty
refresh_resolve(p) ==
  /\ req[p].pc = "resolve"
  /\ Resolve(p, req[p].user, "refresh")
  /\ UNCHANGED <<subscriptions, now, templates, quests, nextQuestId, users, claims, bounties, nextBountyId>>

(* --------------------------- specifications ---------------------------- *)
QuestUpdates ==
  {[completed |-> TRUE], [completed |-> FALSE], [quest_type |-> "standard"],
   [quest_type |-> "corrupted"]}

\* quest lifecycle: creation, completion, edits, deletion and the corruption sweep
Next ==
  \/ \E d \in {NoTime, now - StepHours} : nextQuestId <= MaxQuests /\ create_quest(1, 1, 1, d)
  \/ \E p \in Procs, q \in QuestIds : complete_quest(p, 1, q)
  \/ \E p \in Procs : crud_complete_quest(p)
  \/ \E p \in Procs : award_xp(p)
  \/ \E p \in Procs : award_gold(p)
  \/ \E q \in QuestIds, upd \in QuestUpdates : update_quest(1, q, upd)
  \/ check_and_corrupt_overdue_quests

Spec == Init /\ [][Next]_vars

UserUpdates == {[level |-> 2], [xp |-> 100], [gold_balance |-> 0]}

\* users' progression and gold: awards, direct additions, edits and reward claims
NextUser ==
  \/ \E t \in Templates : nextQuestId <= MaxTriggers /\ trigger_quest(1, 1, t)
  \/ \E p \in Procs : crud_complete_quest(p)
  \/ \E p \in Procs : award_xp(p)
  \/ \E p \in Procs : award_gold(p)
  \/ \E amount \in {100} : add_xp_to_user(1, 1, amount)
  \/ \E amount \in {10} : add_gold_to_user(1, 1, amount)
  \/ \E upd \in UserUpdates : update_user(1, 1, upd)
  \/ \E p \in Procs, rw \in Rewards : claim_reward(p, 1, 1, rw)
  \/ \E p \in Procs : claim_pay(p)
  \/ \E p \in Procs : claim_activate(p)

SpecUser == Init /\ [][NextUser]_vars

\* the daily bounty of user 1 while quests come and go and the days pass
NextBounty ==
  \/ Tick(MaxTime)
  \/ \E u \in Users : nextQuestId <= MaxBountyQuests /\ create_quest(1, u, 1, NoTime)
  \/ \E q \in QuestIds : update_quest(1, q, [completed |-> TRUE])
  \/ update_quest(1, 1, [quest_type |-> "corrupted"])
  \/ \E q \in QuestIds : delete_quest(1, q)
  \/ \E p \in Procs : nextBountyId <= MaxBounties /\ get_or_create_today_bounty(p, 1)
  \/ \E p \in Procs : create_decision(p)
  \/ \E p \in Procs : refetch_after_conflict(p)

SpecBounty == Init /\ [][NextBounty]_vars

\* the daily bounty of user 1 with the administrative refresh
NextRefresh ==
  \/ Tick(MaxTime)
  \/ nextQuestId <= MaxBountyQuests /\ create_quest(1, 1, 1, NoTime)
  \/ \E p \in Procs : nextBountyId <= MaxBounties /\ get_or_create_today_bounty(p, 1)
  \/ \E p \in Procs : create_decision(p)
  \/ \E p \in Procs : refetch_after_conflict(p)
  \/ \E p \in Procs : nextBountyId <= MaxBounties /\ refresh_bounty(p, 1)
  \/ \E p \in Procs : refresh_resolve(p)

SpecRefresh == Init /\ [][NextRefresh]_vars

\* a quest that has been in the store for MIN_BOUNTY_AGE_HOURS
OldQuest(h, u, t, xp, gold, quest_type, due) ==
  [home_id |-> h, user_id |-> u, quest_template_id |-> t, completed |-> FALSE,
   created_at |-> 0, completed_at |-> NoTime, xp_reward |-> xp, gold_reward |-> gold,
   quest_type |-> quest_type, due_date |-> due,
   corrupted_at |-> IF quest_type = "corrupted" THEN due ELSE NoTime]

\* a household two days on: two quests of user 1 and one of user 2, all from template 2
InitBountyReward ==
  /\ now = MIN_BOUNTY_AGE_HOURS
  /\ templates = [t \in Templates |-> TemplateRow(t)]
  /\ quests = [q \in 1..3 |-> OldQuest(1, IF q = 3 THEN 2 ELSE 1, 2, TemplateXp(2),
                                       TemplateGold(2), "standard", NoTime)]
  /\ nextQuestId = 4
  /\ users = [u \in Users |-> [level |-> 1, xp |-> 0, gold_balance |-> 0,
                               active_xp_boost_count |-> 0, active_shield_expiry |-> NoTime]]
  /\ claims = [u \in Users |-> 0]
  /\ bounties = {}
  /\ subscriptions = {}
  /\ nextBountyId = 1
  /\ req = [p \in Procs |-> IdleReq]

\* completions on a day whose bounties are being decided
NextBountyReward ==
  \/ \E p \in Procs, u \in Users : nextBountyId <= MaxBounties /\ get_or_create_today_bounty(p, u)
  \/ \E p \in Procs : create_decision(p)
  \/ \E p \in Procs : refetch_after_conflict(p)
  \/ \E p \in Procs, q \in 1..3 : complete_quest(p, 1, q)
  \/ \E p \in Procs : crud_complete_quest(p)
  \/ \E p \in Procs : award_xp(p)
  \/ \E p \in Procs : award_gold(p)

SpecBountyReward == InitBountyReward /\ [][NextBountyReward]_vars

\* the rewards of the two quests user 1 is about to complete
BaseRewards == {[xp |-> 50, gold |-> 5], [xp |-> 90, gold |-> 10]}

\* a household two days on: two standalone quests of user 1, up to MaxCorrupted corrupted
\* quests of user 2, possibly a corrupted quest of another household, and user 1 with or
\* without a shield and a remaining boost
InitPipeline ==
  /\ now = MIN_BOUNTY_AGE_HOURS
  /\ templates = [t \in Templates |-> TemplateRow(t)]
  /\ \E c \in 0..MaxCorrupted, other \in 0..1, r \in BaseRewards :
       /\ quests = [q \in 1..(2 + c + other) |->
            IF q <= 2 THEN OldQuest(1, 1, NoId, r.xp, r.gold, "standard", NoTime)
            ELSE IF q <= 2 + c THEN OldQuest(1, 2, NoId, 50, 5, "corrupted", StepHours)
            ELSE OldQuest(2, 3, NoId, 50, 5, "corrupted", StepHours)]
       /\ nextQuestId = 3 + c + other
  /\ \E shield \in {NoTime, now - StepHours, now + StepHours}, boost \in 0..1 :
       users = [u \in Users |-> [level |-> 1, xp |-> 0, gold_balance |-> 0,
                  active_xp_boost_count |-> IF u = 1 THEN boost ELSE 0,
                  active_shield_expiry |-> IF u = 1 THEN shield ELSE NoTime]]
  /\ claims = [u \in Users |-> 0]
  /\ bounties = {}
  /\ subscriptions = {}
  /\ nextBountyId = 1
  /\ req = [p \in Procs |-> IdleReq]

\* the reward pipeline: user 1 completes the two quests, possibly in two requests at once
NextPipeline ==
  \/ \E p \in Procs, q \in 1..2 : complete_quest(p, 1, q)
  \/ \E p \in Procs : crud_complete_quest(p)
  \/ \E p \in Procs : award_xp(p)
  \/ \E p \in Procs : award_gold(p)
  \/ \E p \in Procs : decrement_boost(p)

SpecPipeline == InitPipeline /\ [][NextPipeline]_vars

\* the quest ids the generation sweeps can hand out
GeneratedIds == 1..(MaxGenerated + 2 * Cardinality(Users) - 1)

\* recurring generation by one request at a time, while the members complete their instances
NextGenerate ==
  \/ Tick(MaxTime)
  \/ nextQuestId <= MaxGenerated /\ get_all_quests(1, 1)
  \/ generate_commit(1)
  \/ \E q \in GeneratedIds : complete_quest(2, 1, q)
  \/ crud_complete_quest(2)
  \/ award_xp(2)
  \/ award_gold(2)

SpecGenerate == Init /\ [][NextGenerate]_vars

\* recurring generation by two requests at once
NextGenerateRace ==
  \/ Tick(MaxTime)
  \/ \E p \in Procs : nextQuestId <= MaxGenerated /\ get_all_quests(p, 1)
  \/ \E p \in Procs : generate_commit(p)
  \/ \E q \in GeneratedIds : update_quest(1, q, [completed |-> TRUE])

SpecGenerateRace == Init /\ [][NextGenerateRace]_vars

\* The schedule calculator on its own: the clock stands at one of the instants below, template
\* 1 holds one of the schedules below and was last generated at one of the distances below
\* before now, and the calculator is called on it.
Instants ==
  {DateTime(c[1], c[2], c[3], c[4]) :
     c \in {x \in {2024, 2025} \X {1, 2, 12} \X {1, 2, 15, 28, 29, 31} \X {7, 8, 9} :
              x[3] <= monthrange(x[1], x[2])}}
SinceLast == {1, 24, 3 * 24, 7 * 24, 8 * 24, 40 * 24}
DayNames == {"monday", "tuesday", "wednesday", "thursday", "friday", "saturday", "sunday"}
Schedules ==
  {Schedule("daily", tm, DayMissing) :
     tm \in {TimeStr(8, 0), TimeStr(25, 0), TimeStr(12, 60), TimeText, TimeNumber, TimeMissing}}
  \cup {Schedule("weekly", tm, DayName(d)) :
          tm \in {TimeStr(8, 0), TimeText}, d \in DayNames \cup {"funday"}}
  \cup {Schedule("weekly", TimeStr(8, 0), d) : d \in {DayMissing, DayInt(3)}}
  \cup {Schedule("monthly", tm, DayInt(n)) :
          tm \in {TimeStr(8, 0), TimeText}, n \in {0, 1, 15, 29, 30, 31, 32}}
  \cup {Schedule("monthly", TimeStr(8, 0), d) : d \in {DayMissing, DayName("15")}}
  \cup {Schedule("yearly", TimeStr(8, 0), DayMissing),
        Schedule("missing", TimeStr(8, 0), DayMissing)}

InitSchedule ==
  /\ now \in Instants
  /\ \E last \in {NoTime} \cup {now - d : d \in {x \in SinceLast : x <= now}},
        schedule \in Schedules :
       templates = [t \in Templates |->
                      IF t = 1 THEN [TemplateRow(t) EXCEPT !.last_generated_at = last,
                                                           !.recurrence = schedule.type,
                                                           !.schedule = schedule]
                      ELSE TemplateRow(t)]
  /\ quests = <<>>
  /\ nextQuestId = 1
  /\ users = [u \in Users |-> [level |-> 1, xp |-> 0, gold_balance |-> 0,
                               active_xp_boost_count |-> 0, active_shield_expiry |-> NoTime]]
  /\ claims = [u \in Users |-> 0]
  /\ bounties = {}
  /\ subscriptions = {}
  /\ nextBountyId = 1
  /\ req = [p \in Procs |-> IdleReq]

NextSchedule == calculate(1, 1)

SpecSchedule == InitSchedule /\ [][NextSchedule]_vars

\* Recurrence over the days: template 1 recurs daily, weekly on Tuesday or monthly on the 2nd,
\* at 00:00; the clock starts on Monday 1 January, time passes, list requests keep arriving
\* and each sweep that starts commits, while the members complete what was generated.
RecurringSchedules ==
  {Schedule("daily", TimeStr(0, 0), DayMissing),
   Schedule("weekly", TimeStr(0, 0), DayName("tuesday")),
   Schedule("monthly", TimeStr(0, 0), DayInt(2))}

InitRecur ==
  /\ now = 0
  /\ \E schedule \in RecurringSchedules :
       templates = [t \in Templates |->
                      IF t = 1 THEN [TemplateRow(t) EXCEPT !.recurrence = schedule.type,
                                                           !.schedule = schedule]
                      ELSE TemplateRow(t)]
  /\ quests = <<>>
  /\ nextQuestId = 1
  /\ users = [u \in Users |-> [level |-> 1, xp |-> 0, gold_balance |-> 0,
                               active_xp_boost_count |-> 0, active_shield_expiry |-> NoTime]]
  /\ claims = [u \in Users |-> 0]
  /\ bounties = {}
  /\ subscriptions = {}
  /\ nextBountyId = 1
  /\ req = [p \in Procs |-> IdleReq]

SpecRecur ==
  /\ InitRecur
  /\ [][NextGenerate]_vars
  /\ WF_vars(Tick(MaxTime))
  /\ WF_vars(nextQuestId <= MaxGenerated /\ get_all_quests(1, 1))
  /\ WF_vars(generate_commit(1))

\* The sweep over stored schedules: template 2 recurs daily at 00:00, and template 1 holds a
\* schedule column that is sound or malformed in one of the ways below.
StoredSchedules ==
  {ScheduleNotJson, ScheduleNotObject,
   Schedule("daily", TimeStr(0, 0), DayMissing),
   Schedule("daily", TimeStr(25, 0), DayMissing),
   Schedule("daily", TimeText, DayMissing),
   Schedule("weekly", TimeStr(0, 0), DayInt(3)),
   Schedule("monthly", TimeStr(0, 0), DayName("15")),
   Schedule("monthly", TimeStr(0, 0), DayInt(32)),
   Schedule("yearly", TimeStr(0, 0), DayMissing)}

InitSweep ==
  /\ now = 0
  /\ \E schedule \in StoredSchedules :
       templates = [t \in Templates |->
                      [TemplateRow(t) EXCEPT
                         !.recurrence = IF t = 1 /\ schedule.type # "missing" THEN schedule.type
                                        ELSE "daily",
                         !.schedule = IF t = 1 THEN schedule
                                      ELSE Schedule("daily", TimeStr(0, 0), DayMissing)]]
  /\ quests = <<>>
  /\ nextQuestId = 1
  /\ users = [u \in Users |-> [level |-> 1, xp |-> 0, gold_balance |-> 0,
                               active_xp_boost_count |-> 0, active_shield_expiry |-> NoTime]]
  /\ claims = [u \in Users |-> 0]
  /\ bounties = {}
  /\ subscriptions = {}
  /\ nextBountyId = 1
  /\ req = [p \in Procs |-> IdleReq]

SpecSweep == InitSweep /\ [][NextGenerate]_vars

\* Requests of user 1 addressed by id: quest 1 is a quest of the household, quest 2 belongs to
\* user 3 of household 2, and the last id of each kind names no row.
InitForeign ==
  /\ now = MIN_BOUNTY_AGE_HOURS
  /\ templates = [t \in Templates |-> TemplateRow(t)]
  /\ quests = [q \in 1..2 |-> IF q = 1 THEN OldQuest(1, 1, 2, 50, 5, "standard", NoTime)
                               ELSE OldQuest(2, 3, 3, 50, 5, "standard", NoTime)]
  /\ nextQuestId = 3
  /\ users = [u \in Users |-> [level |-> 1, xp |-> 0, gold_balance |-> 0,
                               active_xp_boost_count |-> 0, active_shield_expiry |-> NoTime]]
  /\ claims = [u \in Users |-> 0]
  /\ bounties = {}
  /\ subscriptions = {}
  /\ nextBountyId = 1
  /\ req = [p \in Procs |-> IdleReq]

QuestRefs == 1..(2 + MaxTriggers + 1)
TemplateRefs == TemplateIds \cup {4}
UserRefs == UserIds \cup {4}
RewardRefs == RewardIds \cup {5}

NextForeign ==
  \/ \E q \in QuestRefs : get_quest(1, 1, q)
  \/ \E q \in QuestRefs : complete_quest(1, 1, q)
  \/ \E q \in QuestRefs, op \in {"update", "delete"} : quest_not_found(1, 1, q, op)
  \/ \E q \in QuestRefs : update_quest(1, q, [quest_type |-> "corrupted"])
  \/ \E q \in QuestRefs : delete_quest(1, q)
  \/ \E t \in TemplateRefs : get_quest_template(1, 1, t)
  \/ \E t \in TemplateRefs : nextQuestId <= 2 + MaxTriggers /\ trigger_quest(1, 1, t)
  \/ \E u \in UserRefs : get_user(1, 1, u)
  \/ \E u \in UserRefs, rw \in RewardRefs : claim_reward(1, 1, u, rw)
  \/ crud_complete_quest(1)
  \/ award_xp(1)
  \/ award_gold(1)
  \/ claim_pay(1)
  \/ claim_activate(1)

SpecForeign == InitForeign /\ [][NextForeign]_vars

\* Lazy sweeps: quest 1 falls due after the first step of the clock and nobody has run the
\* corruption sweep on it; the members list the quests, which generates the daily template,
\* and complete quests.
InitOrder ==
  /\ now = 0
  /\ templates = [t \in Templates |-> TemplateRow(t)]
  /\ quests = [q \in 1..2 |-> IF q = 1 THEN OldQuest(1, 1, 2, 50, 5, "standard", StepHours)
                               ELSE OldQuest(1, 2, 2, 50, 5, "standard", NoTime)]
  /\ nextQuestId = 3
  /\ users = [u \in Users |-> [level |-> 1, xp |-> 0, gold_balance |-> 0,
                               active_xp_boost_count |-> 0, active_shield_expiry |-> NoTime]]
  /\ claims = [u \in Users |-> 0]
  /\ bounties = {}
  /\ subscriptions = {}
  /\ nextBountyId = 1
  /\ req = [p \in Procs |-> IdleReq]

NextOrder ==
  \/ Tick(MaxTime)
  \/ nextQuestId <= 2 + MaxGenerated /\ get_all_quests(1, 1)
  \/ generate_commit(1)
  \/ \E q \in 1..(2 + MaxGenerated) : complete_quest(2, 2, q)
  \/ crud_complete_quest(2)
  \/ award_xp(2)
  \/ award_gold(2)

SpecOrder == InitOrder /\ [][NextOrder]_vars

\* crud.user.add_xp called by any caller (routes, seed, scripts) with any integer
crud_add_xp(p, u, amount) ==
  /\ req[p].pc = "idle"
  /\ users' = [users EXCEPT ![u] = add_xp(@, amount)]
  /\ req' = [req EXCEPT ![p] = [IdleReq EXCEPT !.op = "add_xp", !.user = u, !.xp = amount,
                                                !.result = "OK"]]
  /\ UNCHANGED <<subscriptions, now, templates, quests, nextQuestId, claims, bounties, nextBountyId>>

\* crud.user.add_gold called by any caller with any integer
crud_add_gold(p, u, amount) ==
  /\ req[p].pc = "idle"
  /\ users' = [users EXCEPT ![u] = add_gold(@, amount)]
  /\ req' = [req EXCEPT ![p] = [IdleReq EXCEPT !.op = "add_gold", !.user = u, !.gold = amount,
                                                !.result = "OK"]]
  /\ UNCHANGED <<subscriptions, now, templates, quests, nextQuestId, claims, bounties, nextBountyId>>

\* The two primitives on their own, called on user 1 with amounts of either sign.
XpAmounts == {-100, -50, 50, 100}
GoldAmounts == {-10, -5, 5, 10}

NextPrimitive ==
  \/ \E amount \in XpAmounts :
        /\ users[1].xp + amount \in (-MaxXp)..MaxXp
        /\ crud_add_xp(1, 1, amount)
  \/ \E amount \in GoldAmounts :
        /\ users[1].gold_balance + amount \in (-MaxGold)..MaxGold
        /\ crud_add_gold(1, 1, amount)

SpecPrimitive == Init /\ [][NextPrimitive]_vars

\* Template requests of user 1: templates are created and the templates of the household are
\* edited, with every recurrence against every schedule below.
Recurrences == {"one-off", "daily", "weekly", "monthly"}
TemplateSchedules ==
  {ScheduleNone, ScheduleNotJson, ScheduleNotObject,
   Schedule("daily", TimeStr(0, 0), DayMissing),
   Schedule("daily", TimeText, DayMissing),
   Schedule("weekly", TimeStr(0, 0), DayName("tuesday")),
   Schedule("weekly", TimeStr(0, 0), DayInt(3)),
   Schedule("monthly", TimeStr(0, 0), DayInt(2)),
   Schedule("monthly", TimeStr(0, 0), DayInt(32))}
TemplatePayloads ==
  {[recurrence |-> r, schedule |-> s, xp_reward |-> 10, gold_reward |-> 5, due_in_hours |-> 0] :
     r \in Recurrences, s \in TemplateSchedules}
TemplateUpdates ==
  {[recurrence |-> r] : r \in Recurrences}
    \cup {[schedule |-> s] : s \in TemplateSchedules}
    \cup {[recurrence |-> r, schedule |-> s] : r \in Recurrences, s \in TemplateSchedules}

NextTemplate ==
  \/ \E template \in TemplatePayloads, created_by \in UserIds :
        /\ Cardinality(DOMAIN templates) < Cardinality(Templates) + MaxTemplates
        /\ create_quest_template(1, 1, created_by, template)
  \/ \E t \in DOMAIN templates \cup TemplateIds, template_update \in TemplateUpdates :
        update_quest_template(1, 1, t, template_update)

SpecTemplate == Init /\ [][NextTemplate]_vars

\* Subscriptions: the members subscribe to the templates, user 1 from two requests at once,
\* and drop their subscriptions.
SubscriptionIds == 1..MaxSubscriptions

NextSubscription ==
  \/ \E p \in Procs, auth \in Users, t \in TemplateIds :
        /\ p = 1 \/ auth = 1
        /\ NextSubscriptionId <= MaxSubscriptions
        /\ create_subscription(p, auth, t)
  \/ \E p \in Procs : crud_create_subscription(p)
  \/ \E auth \in Users, id \in SubscriptionIds : delete_subscription(auth, id)

SpecSubscription == Init /\ [][NextSubscription]_vars

\* calculate_level on its own: add_xp takes user 1 through every xp of 0..MaxLevelXp and
\* stores the level computed for it.
LevelSteps == {1, 7, 99, 100, 300}

NextLevel ==
  \E amount \in LevelSteps :
     /\ users[1].xp + amount <= MaxLevelXp
     /\ crud_add_xp(1, 1, amount)

SpecLevel == Init /\ [][NextLevel]_vars

\* The corruption sweep over two households: quest 1 of user 1 and quest 3 of user 3
\* (household 2) start in any of the shapes below, quest 2 of user 2 is due at StepHours; time
\* passes, users 1 and 3 ask for the corruption check and list the quests of their households.
QuestShapes == {"open", "due", "late", "done", "corrupted", "bounty"}
ShapedQuest(h, u, shape) ==
  CASE shape = "open" -> OldQuest(h, u, 2, 50, 5, "standard", NoTime)
    [] shape = "due" -> OldQuest(h, u, 2, 50, 5, "standard", StepHours)
    [] shape = "late" -> OldQuest(h, u, 2, 50, 5, "standard", 0)
    [] shape = "done" -> [OldQuest(h, u, 2, 50, 5, "standard", 0)
                            EXCEPT !.completed = TRUE, !.completed_at = 0]
    [] shape = "corrupted" -> OldQuest(h, u, 2, 50, 5, "corrupted", 0)
    [] OTHER -> OldQuest(h, u, 2, 50, 5, "bounty", StepHours)

InitCorruption ==
  /\ now = 0
  /\ templates = [t \in Templates |-> TemplateRow(t)]
  /\ \E s1 \in QuestShapes, s3 \in QuestShapes :
        quests = [q \in 1..3 |-> CASE q = 1 -> ShapedQuest(1, 1, s1)
                                   [] q = 2 -> ShapedQuest(1, 2, "due")
                                   [] OTHER -> ShapedQuest(2, 3, s3)]
  /\ nextQuestId = 4
  /\ users = [u \in Users |-> [level |-> 1, xp |-> 0, gold_balance |-> 0,
                               active_xp_boost_count |-> 0, active_shield_expiry |-> NoTime]]
  /\ claims = [u \in Users |-> 0]
  /\ bounties = {}
  /\ subscriptions = {}
  /\ nextBountyId = 1
  /\ req = [p \in Procs |-> IdleReq]

NextCorruption ==
  \/ Tick(MaxTime)
  \/ \E auth \in {1, 3} : check_corruption(1, auth)
  \/ \E auth \in {1, 3} : nextQuestId <= 3 + MaxGenerated /\ get_all_quests(2, auth)
  \/ generate_commit(2)

SpecCorruption == InitCorruption /\ [][NextCorruption]_vars

\* The sweep over templates with a deadline: template 2 recurs daily at 00:00 with
\* due_in_hours StepHours, template 1 holds any schedule that the template requests store on
\* a recurring template (a valid one of its recurrence, or none after an edit to null).
DeadlineSchedules ==
  {ScheduleNone,
   Schedule("daily", TimeStr(0, 0), DayMissing),
   Schedule("weekly", TimeStr(0, 0), DayName("tuesday")),
   Schedule("monthly", TimeStr(0, 0), DayInt(2))}

InitDeadline ==
  /\ now = 0
  /\ \E schedule \in DeadlineSchedules :
       templates = [t \in Templates |->
                      [TemplateRow(t) EXCEPT
                         !.recurrence = IF t = 1 /\ schedule.type # "missing" THEN schedule.type
                                        ELSE "daily",
                         !.schedule = IF t = 1 THEN schedule
                                      ELSE Schedule("daily", TimeStr(0, 0), DayMissing),
                         !.due_in_hours = IF t = 1 THEN 0 ELSE StepHours]]
  /\ quests = <<>>
  /\ nextQuestId = 1
  /\ users = [u \in Users |-> [level |-> 1, xp |-> 0, gold_balance |-> 0,
                               active_xp_boost_count |-> 0, active_shield_expiry |-> NoTime]]
  /\ claims = [u \in Users |-> 0]
  /\ bounties = {}
  /\ subscriptions = {}
  /\ nextBountyId = 1
  /\ req = [p \in Procs |-> IdleReq]

SpecDeadline == InitDeadline /\ [][NextGenerate]_vars

\* Snapshots: user 1 creates quests from the templates, the rewards of the templates are
\* edited before and after, and the quests are completed.
RewardUpdates == {[xp_reward |-> 20], [gold_reward |-> 2], [xp_reward |-> 30, gold_reward |-> 3]}

NextSnapshot ==
  \/ \E t \in Templates : nextQuestId <= MaxQuests /\ create_quest(1, 1, t, NoTime)
  \/ \E t \in Templates, template_update \in RewardUpdates :
        update_quest_template(1, 1, t, template_update)
  \/ \E q \in QuestIds : complete_quest(2, 1, q)
  \/ crud_complete_quest(2)
  \/ award_xp(2)
  \/ award_gold(2)

SpecSnapshot == Init /\ [][NextSnapshot]_vars

(* ------------------------------- claims -------------------------------- *)
\* C1: once a quest has been completed (it carries a completed_at), every later complete
\* request for it ends with QUEST_ALREADY_COMPLETED and changes neither the users nor the quest
C1_CompletedOnceIsRejected ==
  [][\A p \in Procs, q \in QuestIds :
       (/\ complete_quest(p, 1, q)
        /\ q \in DOMAIN quests
        /\ quests[q].completed_at # NoTime)
       => /\ req'[p].result = "QUEST_ALREADY_COMPLETED"
          /\ UNCHANGED <<users, quests>>]_vars

\* C2: of the complete requests for one quest at most one passes the completed check, so the
\* owner is never credited by two of them
C2_CompletedExactlyOnce ==
  \A p1, p2 \in Procs :
    (/\ p1 # p2
     /\ req[p1].op = "complete" /\ req[p2].op = "complete"
     /\ req[p1].pc \in {"gold", "boost"})
    => ~(req[p2].pc \in {"gold", "boost"} /\ req[p2].quest = req[p1].quest)

\* C3: a completed quest keeps its completed flag, its rewards and its quest_type
C3_CompletedIsTerminal ==
  [][\A q \in DOMAIN quests :
       (quests[q].completed /\ q \in DOMAIN quests')
       => /\ quests'[q].completed
          /\ quests'[q].xp_reward = quests[q].xp_reward
          /\ quests'[q].gold_reward = quests[q].gold_reward
          /\ quests'[q].quest_type = quests[q].quest_type]_vars

C5_LevelIsFunctionOfXp ==
  \A u \in Users : users[u].level = calculate_level(users[u].xp)
\* C6: there is at most one DailyBounty row per (household, user, date), whatever the
\* interleaving of get_or_create_today_bounty and refresh_bounty calls
C6_OneRowPerUserAndDate ==
  \A b1, b2 \in bounties :
    (b1.home_id = b2.home_id /\ b1.user_id = b2.user_id /\ b1.bounty_date = b2.bounty_date)
    => b1 = b2

\* C6, its case: a refresh has deleted today's row and its INSERT met the row of a concurrent
\* request
C6_Witness ==
  \E p \in Procs :
    /\ req[p].op = "refresh" /\ req[p].pc = "refetch"
    /\ get_bounty_for_date(HomeOf(req[p].user), req[p].user, req[p].t) # {}
    /\ nextBountyId > 2

\* C7: without refresh_bounty a decision row is never changed or removed, and every
\* get_or_create_today_bounty call returns the one row of its user and date with the row's
\* status and quest_id, so two calls for one user and date return the same decision
C7_DecisionIsLocked ==
  /\ [](\A p \in Procs :
          req[p].result \in {"OK", "CREATED", "EXISTING_AFTER_CONFLICT"}
          => \E b \in bounties :
               /\ b.id = req[p].row
               /\ b.home_id = HomeOf(req[p].user) /\ b.user_id = req[p].user
               /\ b.bounty_date = req[p].t
               /\ b.status = req[p].status /\ b.quest_id = req[p].quest
               /\ \A c \in bounties :
                    (c.user_id = b.user_id /\ c.bounty_date = b.bounty_date) => c = b)
  /\ [][\A b \in bounties : b \in bounties']_vars

\* C7, its case: the second call returns the decision the first one created although the
\* assigned quest has been deleted since
C7_Witness ==
  /\ req[1].result = "CREATED" /\ req[2].result = "OK"
  /\ req[1].row = req[2].row /\ req[1].t = req[2].t
  /\ req[2].status = "assigned" /\ req[2].quest = req[1].quest
  /\ req[1].quest \notin DOMAIN quests

\* C8: of two interleaved first-of-day calls one inserts the row, the other is handed that
\* same row, and none of them ends with an error
C8_RaceReturnsTheSameRow ==
  /\ \A p \in Procs : req[p].result # "SERVER_ERROR"
  /\ \A p1, p2 \in Procs :
       (/\ p1 # p2
        /\ req[p1].result \in {"CREATED", "EXISTING_AFTER_CONFLICT"}
        /\ req[p2].result \in {"CREATED", "EXISTING_AFTER_CONFLICT"}
        /\ req[p1].user = req[p2].user /\ req[p1].t = req[p2].t)
       => /\ req[p1].row = req[p2].row
          /\ req[p1].status = req[p2].status /\ req[p1].quest = req[p2].quest
          /\ ~(req[p1].result = "CREATED" /\ req[p2].result = "CREATED")
          /\ Cardinality(get_bounty_for_date(HomeOf(req[p1].user), req[p1].user, req[p1].t)) = 1

\* C8, its case: both calls found no row, one inserted and the other met the unique
\* constraint and re-fetched
C8_Witness ==
  /\ req[1].result = "CREATED" /\ req[2].result = "EXISTING_AFTER_CONFLICT"
  /\ req[1].user = req[2].user /\ req[1].t = req[2].t
  /\ req[1].row = req[2].row

\* C9: a call that finds no row of today picks among the eligible quests; with two or more
\* of them, yesterday's assigned quest among them, the pick is another quest, and with
\* yesterday's assigned quest as the only one the pick is that quest again
C9_AntiRepeat ==
  [][\A p \in Procs :
       (req[p].pc = "idle" /\ req'[p].pc = "insert")
       => LET u == req'[p].user
              candidates == get_eligible_active_quests(HomeOf(u), u)
              yesterday == {b \in bounties : /\ b.home_id = HomeOf(u) /\ b.user_id = u
                                             /\ b.bounty_date = DateOf(now) - 1
                                             /\ b.status = "assigned"}
          IN /\ (candidates = {}) <=> (req'[p].status = "none_eligible")
             /\ candidates # {} => (req'[p].status = "assigned" /\ req'[p].quest \in candidates)
             /\ \A b \in yesterday :
                  /\ (Cardinality(candidates) >= 2 /\ b.quest_id \in candidates)
                     => req'[p].quest # b.quest_id
                  /\ candidates = {b.quest_id} => req'[p].quest = b.quest_id]_vars

\* C9, its case: two quests are eligible, yesterday's decision was assigned one of them, and
\* today's pick is the other
C9_Witness ==
  \E p \in Procs, b \in bounties :
    /\ req[p].pc = "insert" /\ req[p].status = "assigned"
    /\ b.user_id = req[p].user /\ b.bounty_date = req[p].t - 1 /\ b.status = "assigned"
    /\ req[p].t = DateOf(now)
    /\ {b.quest_id, req[p].quest} \subseteq get_eligible_active_quests(HomeOf(req[p].user), req[p].user)
    /\ b.quest_id # req[p].quest

C12_BountyMultiplierByQuest ==
  [][\A p \in Procs :
       (req[p].pc = "idle" /\ req'[p].op = "complete" /\ req'[p].pc = "mark")
       => LET q == req'[p].quest
              quest == quests[q]
              user == users[quest.user_id]
              is_pick == \E b \in bounties : /\ b.home_id = quest.home_id
                                             /\ b.user_id = quest.user_id
                                             /\ b.bounty_date = DateOf(now)
                                             /\ b.status = "assigned"
                                             /\ b.quest_id = q
              bounty_multiplier == IF is_pick THEN 2 ELSE 1
              debuff == calculate_corruption_debuff(quest.home_id, user)
              boost_multiplier == IF user.active_xp_boost_count > 0 THEN 2 ELSE 1
          IN /\ req'[p].xp = Awarded(quest.xp_reward, debuff, bounty_multiplier, boost_multiplier)
             /\ req'[p].gold = Awarded(quest.gold_reward, debuff, bounty_multiplier, 1)]_vars

\* C13: a completion computes xp = floor(base_xp * debuff * bounty * boost) and
\* gold = floor(base_gold * debuff * bounty), stores exactly these on the quest and adds
\* exactly these to the owner's xp and gold_balance
C13_RewardsAreFloored ==
  [][\A p \in Procs :
       /\ (req[p].pc = "idle" /\ req'[p].op = "complete" /\ req'[p].pc = "mark")
          => LET quest == quests[req'[p].quest]
                 user == users[quest.user_id]
                 debuff == calculate_corruption_debuff(quest.home_id, user)
                 boost_multiplier == IF user.active_xp_boost_count > 0 THEN 2 ELSE 1
             IN \E is_daily_bounty \in IsDailyBounty(quest.home_id, req'[p].quest) :
                  LET bounty_multiplier == IF is_daily_bounty THEN 2 ELSE 1
                  IN /\ req'[p].xp =
                          (quest.xp_reward * debuff * bounty_multiplier * boost_multiplier) \div 100
                     /\ req'[p].gold = (quest.gold_reward * debuff * bounty_multiplier) \div 100
       /\ (req[p].op = "complete" /\ req[p].pc = "mark" /\ req'[p].pc = "xp")
          => /\ quests'[req[p].quest].xp_reward = req[p].xp
             /\ quests'[req[p].quest].gold_reward = req[p].gold
       /\ (req[p].op = "complete" /\ req[p].pc = "xp" /\ req'[p].pc = "gold")
          => users'[req[p].user].xp = users[req[p].user].xp + req[p].xp
       /\ (req[p].op = "complete" /\ req[p].pc = "gold" /\ req'[p].pc # "gold")
          => users'[req[p].user].gold_balance = users[req[p].user].gold_balance + req[p].gold]_vars

C15_BoostCounterNeverNegative ==
  \A u \in Users : users[u].active_xp_boost_count >= 0

\* C16: no state of the store has a quest marked completed by a completion request that has
\* not yet credited the owner's xp and gold
C16_CompletionIsAtomic ==
  \A p \in Procs :
    (/\ req[p].op = "complete"
     /\ req[p].quest \in DOMAIN quests
     /\ quests[req[p].quest].completed)
    => req[p].pc \notin {"xp", "gold"}

\* C17: a corruption sweep writes nothing to a quest that an earlier sweep has already
\* reported as corrupted
C17_SweepReportsOnce ==
  [][check_and_corrupt_overdue_quests
     => \A q \in DOMAIN quests : quests[q].corrupted_at # NoTime => quests'[q] = quests[q]]_vars

\* C18: quest_type becomes 'corrupted' only from 'standard', on a quest that is not completed
\* and whose due_date is set and in the past
C18_CorruptedOnlyWhenOverdue ==
  [][\A q \in DOMAIN quests :
       (/\ q \in DOMAIN quests'
        /\ quests[q].quest_type # "corrupted"
        /\ quests'[q].quest_type = "corrupted")
       => /\ quests[q].quest_type = "standard"
          /\ ~quests[q].completed
          /\ quests[q].due_date # NoTime
          /\ quests[q].due_date < now]_vars

\* C19: a sweep creates no instance of a template of which an incomplete instance exists, so
\* no member ever has two incomplete instances of one template
C19_SweepIsSpamProof ==
  /\ [](\A t \in Templates, u \in Users :
          Cardinality({q \in DOMAIN quests : /\ quests[q].quest_template_id = t
                                             /\ quests[q].user_id = u
                                             /\ ~quests[q].completed}) <= 1)
  /\ [][\A q \in DOMAIN quests' \ DOMAIN quests :
          ~\E q0 \in DOMAIN quests : /\ quests[q0].quest_template_id = quests'[q].quest_template_id
                                     /\ ~quests[q0].completed]_vars

\* C19, its case: the sweep of a later day has generated the next instance after the first
\* one was completed, and a further sweep has left it alone
C19_Witness ==
  /\ \E q1, q2 \in DOMAIN quests :
       /\ quests[q1].quest_template_id = quests[q2].quest_template_id
       /\ quests[q1].user_id = quests[q2].user_id
       /\ quests[q1].completed /\ ~quests[q2].completed
       /\ quests[q2].created_at < now
  /\ req[1].op = "list" /\ req[1].result = "OK"

\* C20: two sweeps of one household, however interleaved, leave at most one instance per
\* template and member for one occurrence
C20_RaceCreatesOneInstance ==
  \A q1, q2 \in DOMAIN quests :
    (/\ quests[q1].quest_template_id = quests[q2].quest_template_id
     /\ quests[q1].user_id = quests[q2].user_id
     /\ DateOf(quests[q1].created_at) = DateOf(quests[q2].created_at))
    => q1 = q2

\* the instant of hour h on the calendar day of t
AtHour(t, h) == DateTime(YearOf(t), MonthOf(t), DayOf(t), h)
\* a time string HH:MM within 00:00..23:59
ValidTime(tm) == tm.kind = "hhmm" /\ tm.hour \in 0..23 /\ tm.minute \in 0..59
Weekdays == <<"monday", "tuesday", "wednesday", "thursday", "friday", "saturday", "sunday">>

\* C22: a daily schedule with a valid time T yields today at T when the template was never
\* generated or last generated on an earlier day, also when T has passed, and tomorrow at T
\* when it was last generated today
C22_DailyTodayOrTomorrow ==
  LET r == req[1]
      row == templates[1]
      T == row.schedule.time.hour
  IN (r.op = "calculate" /\ row.schedule.type = "daily" /\ ValidTime(row.schedule.time))
     => /\ r.result = "OK"
        /\ (row.last_generated_at = NoTime \/ DateOf(row.last_generated_at) < DateOf(now))
             => r.t = AtHour(now, T)
        /\ (row.last_generated_at # NoTime /\ DateOf(row.last_generated_at) = DateOf(now))
             => r.t = AtHour(now, T) + 24

\* C22, its case: a template last generated on an earlier day is due at today's time, which
\* has passed already
C22_Witness ==
  /\ req[1].op = "calculate" /\ req[1].result = "OK"
  /\ templates[1].schedule.type = "daily"
  /\ templates[1].last_generated_at # NoTime
  /\ DateOf(templates[1].last_generated_at) < DateOf(now)
  /\ req[1].t < now

\* C23: a weekly schedule never generated before yields the scheduled weekday at the scheduled
\* time, not before now and at most 7 days after now; on the scheduled weekday itself it is
\* today while the time has not passed and 7 days later once it has
C23_WeeklyFirstOccurrence ==
  LET r == req[1]
      row == templates[1]
      s == row.schedule
  IN (/\ r.op = "calculate" /\ s.type = "weekly" /\ ValidTime(s.time)
      /\ s.day.kind = "name" /\ s.day.name \in DayNames
      /\ row.last_generated_at = NoTime)
     => /\ r.result = "OK"
        /\ Weekdays[weekday(r.t) + 1] = s.day.name
        /\ HourOf(r.t) = s.time.hour
        /\ r.t >= now /\ r.t <= now + 7 * 24
        /\ Weekdays[weekday(now) + 1] = s.day.name
             => r.t = IF now < AtHour(now, s.time.hour) THEN AtHour(now, s.time.hour)
                      ELSE AtHour(now, s.time.hour) + 7 * 24

\* C23, its case: on the scheduled weekday, after the scheduled time, the result is a week on
C23_Witness ==
  /\ req[1].op = "calculate" /\ req[1].result = "OK"
  /\ templates[1].schedule.type = "weekly"
  /\ templates[1].last_generated_at = NoTime
  /\ Weekdays[weekday(now) + 1] = templates[1].schedule.day.name
  /\ HourOf(now) > templates[1].schedule.time.hour
  /\ req[1].t = AtHour(now, templates[1].schedule.time.hour) + 7 * 24

\* C24: a weekly schedule last generated within the 7 days before now yields an instant at
\* least 7 days after that generation, on the scheduled weekday at the scheduled time
C24_WeeklyNotTwiceAWeek ==
  LET r == req[1]
      row == templates[1]
      s == row.schedule
  IN (/\ r.op = "calculate" /\ s.type = "weekly" /\ ValidTime(s.time)
      /\ s.day.kind = "name" /\ s.day.name \in DayNames
      /\ row.last_generated_at # NoTime
      /\ row.last_generated_at >= now - 7 * 24 /\ row.last_generated_at <= now)
     => /\ r.result = "OK"
        /\ r.t - row.last_generated_at >= 7 * 24
        /\ Weekdays[weekday(r.t) + 1] = s.day.name
        /\ HourOf(r.t) = s.time.hour

\* C24, its case: the coming occurrence lies less than 7 days after the last generation and
\* the result is the occurrence after it
C24_Witness ==
  /\ req[1].op = "calculate" /\ req[1].result = "OK"
  /\ templates[1].schedule.type = "weekly"
  /\ templates[1].last_generated_at # NoTime
  /\ templates[1].last_generated_at >= now - 3 * 24
  /\ req[1].t > now + 7 * 24

\* C25: a monthly schedule with a valid time and a day d in 1..31 always yields an instant:
\* in the next month when the template was generated in the current month or this month's
\* occurrence has passed, else in the current month; on day min(d, last day of that month);
\* after December comes January of the next year
C25_MonthlyAlwaysReturns ==
  LET r == req[1]
      row == templates[1]
      s == row.schedule
      d == s.day.n
      y == YearOf(now)
      m == MonthOf(now)
      this == DateTime(y, m, IF d < monthrange(y, m) THEN d ELSE monthrange(y, m), s.time.hour)
      generated == /\ row.last_generated_at # NoTime
                   /\ YearOf(row.last_generated_at) = y /\ MonthOf(row.last_generated_at) = m
      ty == IF generated \/ this <= now THEN (IF m = 12 THEN y + 1 ELSE y) ELSE y
      tm == IF generated \/ this <= now THEN (IF m = 12 THEN 1 ELSE m + 1) ELSE m
  IN (/\ r.op = "calculate" /\ s.type = "monthly" /\ ValidTime(s.time)
      /\ s.day.kind = "int" /\ d \in 1..31)
     => /\ r.result = "OK"
        /\ YearOf(r.t) = ty /\ MonthOf(r.t) = tm
        /\ DayOf(r.t) = (IF d < monthrange(ty, tm) THEN d ELSE monthrange(ty, tm))
        /\ HourOf(r.t) = s.time.hour

\* C26: the calculator returns no instant for a schedule of unknown or missing type, for a
\* time that is not HH:MM within 00:00..23:59, or for a weekly day that is none of the seven
\* day names; the call fails
C26_InvalidScheduleFails ==
  LET r == req[1]
      s == templates[1].schedule
  IN (/\ r.op = "calculate"
      /\ \/ s.type \notin {"daily", "weekly", "monthly"}
         \/ (s.time.kind # "missing" /\ ~ValidTime(s.time))
         \/ (s.type = "weekly" /\ s.day.kind = "name" /\ s.day.name \notin DayNames))
     => r.result # "OK"

\* x is an occurrence of the schedule: its time of day, on its weekday or its day of the month
ScheduledAt(schedule, x) ==
  /\ HourOf(x) = schedule.time.hour
  /\ schedule.type = "weekly" => weekday(x) = day_map(schedule.day.name)
  /\ schedule.type = "monthly" => DayOf(x) = ClampDay(YearOf(x), MonthOf(x), schedule.day.n)
OccurrencePassed(t) == \E x \in 0..now : ScheduledAt(templates[t].schedule, x)
HasInstance(t) == \E q \in DOMAIN quests : quests[q].quest_template_id = t

\* what keeps weekly and monthly templates from ever being generated, at any hour and not only
\* at the end of the modelled time: the calculator answers a valid weekly or monthly schedule
\* with an instant after now, so the sweep's test now >= next_generation_time fails
WeeklyMonthlyNeverDue ==
  \A p \in Procs :
    (/\ req[p].op = "calculate" /\ req[p].result = "OK"
     /\ templates[req[p].row].schedule.type \in {"weekly", "monthly"}) => req[p].t > now

Malformed(schedule) ==
  \/ schedule.json \in {"invalid", "array"}
  \/ /\ schedule.json = "object"
     /\ \/ schedule.type \notin {"daily", "weekly", "monthly"}
        \/ (schedule.time.kind # "missing" /\ ~ValidTime(schedule.time))
        \/ (schedule.type = "weekly" /\ schedule.day.kind = "int")
        \/ (schedule.type = "weekly" /\ schedule.day.kind = "name"
              /\ schedule.day.name \notin DayNames)
        \/ (schedule.type = "monthly" /\ schedule.day.kind = "name")
        \/ (schedule.type = "monthly" /\ schedule.day.kind = "int"
              /\ schedule.day.n \notin 1..31)

\* C27: a list request that meets a template with a malformed stored schedule does not fail;
\* its sweep leaves that template as it is, generates nothing from it, and still generates and
\* commits every other due template of the household
C27_MalformedIsSkipped ==
  [][\A p \in Procs :
       LET bad == {t \in Templates : Malformed(templates[t].schedule)}
           due == {t \in Templates \ bad :
                     /\ TemplateHome(t) = 1
                     /\ templates[t].recurrence # "one-off"
                     /\ templates[t].last_generated_at = NoTime
                     /\ templates[t].schedule.type = "daily"
                     /\ now >= AtHour(now, templates[t].schedule.time.hour)
                     /\ ~HasInstance(t)}
       IN /\ (req[p].pc = "idle" /\ req'[p].op = "list" /\ bad # {})
             => /\ req'[p].result # "SERVER_ERROR"
                /\ due # {} => (req'[p].pc = "generate" /\ req'[p].due = due)
          /\ (req[p].pc = "generate" /\ req'[p].pc = "idle")
             => /\ \A t \in bad : templates'[t] = templates[t] /\ ~HasInstance(t)'
                /\ \A t \in req[p].due : HasInstance(t)']_vars

\* C28: a request of a member of household 1 for an id of another household gets the answer
\* that the same request gets for an id that names no row, and stores nothing
C28_ForeignIsMissing ==
  [][\A p \in Procs, auth \in Users :
       LET Stored == <<templates, quests, nextQuestId, users, claims, bounties>>
           NotFound(answer) == req'[p].result = answer /\ Stored' = Stored
           foreign_quests == {q \in DOMAIN quests : quests[q].home_id # HomeOf(auth)}
           missing_quests == QuestRefs \ DOMAIN quests
           foreign_templates == {t \in TemplateIds : TemplateHome(t) # HomeOf(auth)}
           foreign_users == {u \in UserIds : HomeOf(u) # HomeOf(auth)}
           foreign_rewards == {rw \in RewardIds : RewardHome(rw) # HomeOf(auth)}
       IN /\ \A q \in foreign_quests \cup missing_quests :
               /\ get_quest(p, auth, q) => NotFound("QUEST_NOT_FOUND")
               /\ complete_quest(p, auth, q) => NotFound("QUEST_NOT_FOUND")
               /\ \A op \in {"update", "delete"} :
                    quest_not_found(p, auth, q, op) => NotFound("QUEST_NOT_FOUND")
               /\ ~update_quest(auth, q, [quest_type |-> "corrupted"])
               /\ ~delete_quest(auth, q)
          /\ \A t \in foreign_templates \cup (TemplateRefs \ TemplateIds) :
               /\ get_quest_template(p, auth, t) => NotFound("QUEST_TEMPLATE_NOT_FOUND")
               /\ trigger_quest(p, auth, t) => NotFound("QUEST_TEMPLATE_NOT_FOUND")
          /\ \A u \in foreign_users \cup (UserRefs \ UserIds) :
               /\ get_user(p, auth, u) => NotFound("USER_NOT_FOUND")
               /\ \A rw \in RewardRefs : claim_reward(p, auth, u, rw) => NotFound("USER_NOT_FOUND")
          /\ \A rw \in foreign_rewards \cup (RewardRefs \ RewardIds) :
               claim_reward(p, auth, 1, rw) => NotFound("REWARD_NOT_FOUND")]_vars

\* the debuff of a household once the corruption sweep has run at this moment: every quest
\* that is overdue now counts as corrupted
SweptDebuff(h, user) ==
  IF user.active_shield_expiry # NoTime /\ user.active_shield_expiry > now
  THEN 100
  ELSE LET swept == Corrupted(quests, now)
           corrupted_count == Cardinality({q \in DOMAIN swept :
                                  /\ swept[q].home_id = h
                                  /\ swept[q].quest_type = "corrupted"
                                  /\ ~swept[q].completed})
       IN 100 - Min(corrupted_count * 5, 50)

\* C29: when the generation sweep of a list request commits, the quests that were overdue when
\* the request came in are already corrupted; and the rewards a completion request computes
\* carry the debuff of every quest of the household that is overdue at that moment
C29_SweepOrder ==
  [][\A p \in Procs :
       /\ generate_commit(p) =>
            \A q \in DOMAIN quests :
               (/\ ~quests[q].completed
                /\ quests[q].due_date # NoTime
                /\ quests[q].due_date < req[p].t) => quests[q].quest_type = "corrupted"
       /\ \A auth \in Users, q \in DOMAIN quests :
            (complete_quest(p, auth, q) /\ req'[p].pc = "mark") =>
               LET debuff == SweptDebuff(HomeOf(auth), users[quests[q].user_id])
               IN /\ req'[p].gold \in {Awarded(quests[q].gold_reward, debuff,
                                               IF b THEN 2 ELSE 1, 1) :
                                         b \in IsDailyBounty(HomeOf(auth), q)}
                  /\ req'[p].xp \in {Awarded(quests[q].xp_reward, debuff, IF b THEN 2 ELSE 1,
                                             IF req'[p].boost THEN 2 ELSE 1) :
                                       b \in IsDailyBounty(HomeOf(auth), q)}]_vars

\* C30: a claim by a user with less gold than the reward costs is refused with
\* INSUFFICIENT_GOLD and the required and the current amount, and stores nothing; a claim by a
\* user with enough gold goes through, takes exactly the cost from the balance the user has
\* when it is taken, and records one claim
C30_ClaimChecksGold ==
  [][\A p \in Procs :
       /\ \A auth \in Users, u \in Users, rw \in Rewards :
            claim_reward(p, auth, u, rw) =>
              IF users[u].gold_balance < RewardCost(rw)
              THEN /\ req'[p].result = "INSUFFICIENT_GOLD"
                   /\ req'[p].details = [required |-> RewardCost(rw),
                                         current |-> users[u].gold_balance]
                   /\ req'[p].pc = "idle"
                   /\ users' = users /\ claims' = claims
              ELSE req'[p].pc = "pay"
       /\ claim_pay(p) =>
            LET u == req[p].user IN
            /\ users'[u].gold_balance = users[u].gold_balance - RewardCost(req[p].reward)
            /\ claims' = claims
       /\ claim_activate(p) =>
            LET u == req[p].user IN
            /\ users'[u].gold_balance = users[u].gold_balance
            /\ claims' = [claims EXCEPT ![u] = @ + 1]
            /\ req'[p].result = "OK"]_vars

\* C31: add_gold with an amount that would take the balance below zero, and add_xp with a
\* negative amount, end in a failure and leave the user as it was
C31_PrimitivesRefuse ==
  [][\A p \in Procs, u \in Users :
       /\ \A amount \in GoldAmounts :
            (crud_add_gold(p, u, amount) /\ users[u].gold_balance + amount < 0)
              => (req'[p].result # "OK" /\ users' = users)
       /\ \A amount \in XpAmounts :
            (crud_add_xp(p, u, amount) /\ amount < 0)
              => (req'[p].result # "OK" /\ users' = users)]_vars

\* a template row keeps the rule: a schedule, where there is one, is a JSON object whose type
\* is the row's recurrence, and a one-off row has no schedule
ScheduleMatches(row) ==
  /\ row.schedule.json # "none" =>
        (row.schedule.json = "object" /\ row.schedule.type = row.recurrence)
  /\ row.recurrence = "one-off" => row.schedule.json = "none"

\* C32: after any sequence of template create and update requests every stored template with
\* a schedule has schedule.type equal to its recurrence and every one-off template has no
\* schedule; a request that would store a row breaking this is answered 400 and stores nothing
C32_ScheduleMatchesRecurrence ==
  /\ [](\A t \in DOMAIN templates : ScheduleMatches(templates[t]))
  /\ [][\A p \in Procs, auth \in Users :
         /\ \A template \in TemplatePayloads :
              (create_quest_template(p, auth, auth, template) /\ ~ScheduleMatches(template))
                => (req'[p].result = "BAD_REQUEST" /\ templates' = templates)
         /\ \A t \in DOMAIN templates, template_update \in TemplateUpdates :
              (/\ update_quest_template(p, auth, t, template_update)
               /\ TemplateHome(t) = HomeOf(auth)
               /\ ~ScheduleMatches(apply_template_update(templates[t], template_update)))
                => (req'[p].result = "BAD_REQUEST" /\ templates' = templates)]_vars

\* C33: there is never more than one subscription of a user to a template, also when two
\* create requests of the user are under way at once, and a create request that meets a
\* subscription of the pair, at its check or at its insert, ends with the conflict error and
\* leaves the subscriptions as they are
C33_OneSubscriptionPerPair ==
  /\ [](\A s1 \in subscriptions, s2 \in subscriptions :
         (s1.user_id = s2.user_id /\ s1.quest_template_id = s2.quest_template_id) => s1 = s2)
  /\ [][\A p \in Procs :
         /\ \A auth \in Users, t \in Templates :
              (create_subscription(p, auth, t) /\ get_subscription_by_user_template(auth, t) # {})
                => req'[p].result = "ALREADY_SUBSCRIBED"
         /\ (/\ crud_create_subscription(p)
             /\ get_subscription_by_user_template(req[p].user, req[p].row) # {})
              => (req'[p].result = "ALREADY_SUBSCRIBED" /\ subscriptions' = subscriptions)]_vars

\* C34: for every xp of 0..MaxLevelXp calculate_level ends and returns the level n >= 1 with
\* 100*(n-1)*n/2 <= xp < 100*n*(n+1)/2; it never falls when xp grows; it is 1 at 0 and 99,
\* 2 at 100 and 299, 3 at 300
LevelBounds(xp, n) ==
  /\ n >= 1
  /\ (100 * (n - 1) * n) \div 2 <= xp
  /\ xp < (100 * n * (n + 1)) \div 2
C34_LevelThresholds ==
  /\ [](/\ users[1].level = calculate_level(users[1].xp)
        /\ LevelBounds(users[1].xp, users[1].level)
        /\ (users[1].xp \in {0, 99} => users[1].level = 1)
        /\ (users[1].xp \in {100, 299} => users[1].level = 2)
        /\ (users[1].xp = 300 => users[1].level = 3))
  /\ [][users'[1].xp >= users[1].xp => users'[1].level >= users[1].level]_vars
\* C34, its case: add_xp has just taken user 1 from 299 xp to 300 and stored level 3
C34_Witness ==
  /\ req[1].op = "add_xp" /\ req[1].xp = 1
  /\ users[1].xp = 300 /\ users[1].level = 3

\* C35: no step of any operation (add xp, quest completion, NFC trigger, user edit) leaves a
\* user with less xp than the user had before it
C35_XpNeverFalls ==
  [][\A u \in Users : users'[u].xp >= users[u].xp]_vars

\* C36: the corruption sweep changes exactly the quests that are not completed, have a
\* due_date before now and are not of type corrupted; on each it sets quest_type to corrupted
\* and corrupted_at to now and nothing else; it returns exactly those quests; every other
\* quest keeps every field
SweepSelects(quest) ==
  /\ quest.completed = FALSE
  /\ quest.due_date # NoTime
  /\ quest.due_date < now
  /\ quest.quest_type # "corrupted"
SweepRan(p) ==
  \/ \E auth \in UserIds : check_corruption(p, auth)
  \/ \E auth \in UserIds : get_all_quests(p, auth) /\ req'[p].result = "OK"
  \/ generate_commit(p)
OwnOverdue(auth) ==
  {q \in DOMAIN quests : quests[q].home_id = HomeOf(auth) /\ SweepSelects(quests[q])}
C39_SweepStaysInHousehold ==
  [][\A p \in Procs, auth \in UserIds :
       /\ (\/ check_corruption(p, auth)
           \/ get_all_quests(p, auth)
           \/ (generate_commit(p) /\ req[p].user = auth))
            => \A q \in DOMAIN quests :
                 quests[q].home_id # HomeOf(auth) => quests'[q] = quests[q]
       /\ check_corruption(p, auth)
            => /\ req'[p].details.corrupted_quest_ids = OwnOverdue(auth)
               /\ req'[p].details.corrupted_count = Cardinality(OwnOverdue(auth))]_vars

\* a daily template of household 1 with a valid time that the sweep has to generate now: it
\* is past the hour-long pause since its last generation, its time of today (of tomorrow if
\* it was generated today) has come, and it has no incomplete instance
DailyDue(t) ==
  LET row == templates[t]
      T == AtHour(now, row.schedule.time.hour)
  IN /\ TemplateHome(t) = 1
     /\ row.recurrence = "daily"
     /\ row.schedule.json = "object" /\ row.schedule.type = "daily"
     /\ ValidTime(row.schedule.time)
     /\ row.last_generated_at = NoTime \/ row.last_generated_at < now - 1
     /\ now >= (IF row.last_generated_at = NoTime \/ DateOf(row.last_generated_at) < DateOf(now)
                THEN T ELSE T + 24)
     /\ ~\E q \in DOMAIN quests : quests[q].quest_template_id = t /\ ~quests[q].completed
\* the quests a step has added for template t and user u
Created(t, u) ==
  {q \in DOMAIN quests' \ DOMAIN quests :
     quests'[q].quest_template_id = t /\ quests'[q].user_id = u}

C40_AllMembersOrNone ==
  [][\A t \in DOMAIN templates :
       /\ \/ \A u \in Users : Created(t, u) # {}
          \/ \A u \in Users : Created(t, u) = {}
       /\ (\E q \in DOMAIN quests : quests[q].quest_template_id = t /\ ~quests[q].completed)
            => \A u \in Users : Created(t, u) = {}]_vars

====
